---- MODULE Spec2Model ----
(***************************************************************************)
(* RecLo: chunk store, recorder and transfer protocol.                     *)
(*                                                                         *)
(* Two builds of the firmware are modelled:                                *)
(*   "omi"  src/omi/firmware/omi/src   streaming recorder, .tmp/.upt/.bin  *)
(*   "fw"   src/firmware/src           accumulate recorder, store_chunk    *)
(* The transfer service is the same code in both builds except for the     *)
(* directory enumerator and the data_size recovery of upload_one_chunk.    *)
(***************************************************************************)
EXTENDS Integers, Sequences, FiniteSets, TLC

(* ------------------------------------------------------------------ *)
(* Program constants                                                    *)
(* ------------------------------------------------------------------ *)
RECLO_PAYLOAD_SIZE == 229
FILE_HDR_SIZE == 17
NAME_DIGITS == 10
UINT16_MOD == 65536
RECLO_CMD_REQUEST_UPLOAD == 1
RECLO_CMD_ACK_CHUNK == 2
RECLO_CMD_ABORT == 3
RECLO_PKT_CHUNK_HEADER == 1
RECLO_PKT_CHUNK_DATA == 2
RECLO_PKT_UPLOAD_DONE == 3
SAMPLE_RATE == 16000

(* ------------------------------------------------------------------ *)
(* Bounds of the model                                                  *)
(* ------------------------------------------------------------------ *)
\* RECLO_MAX_CHUNKS is 64 in reclo_transfer.h; the model runs the same code
\* with a table of this many paths, so that "more files than the table
\* holds" is a case the model reaches.
RECLO_MAX_CHUNKS == 2
\* Chunk timestamps of the files the upload specification starts with.
MaxFiles == 3
\* An unknown control command byte.
UnknownCmd == 4
\* The phone acknowledges timestamps 1..AckFiles while a batch runs.
AckFiles == 2

\* Wall-clock seconds at the first boot, and between one boot and the next.
Wall0 == 10
BootGap == 10
\* Seconds a boot lasts (omi build, fw build), reboots, frames per chunk.
MaxUptime == 1
MaxUptimeFw == 2
MaxBoots == 1
MaxFrames == 2
\* Scaled stand-ins for the 4096-byte stream buffer and the 30 s chunk period.
RECLO_STREAM_BUF_SIZE == 300
RECLO_CHUNK_DURATION_S == 1
\* Scaled stand-in for 2^32, the modulus of uint32 timestamps.
TsMod == 1000
\* Scaled stand-in for the 75000-byte accumulation buffer of the fw build.
RECLO_CHUNK_MAX_BYTES == 500
\* A retimestamp run on given inputs: wall clock 1..MaxWallRt, uptime and
\* .upt timestamps 0..MaxUptRt.
MaxWallRt == 3
MaxUptRt == 3
\* Seconds the recorder runs when only the button, the codec and the flush
\* thread act.
MaxUptimeBtn == 3

(* ------------------------------------------------------------------ *)
(* File names: "%010u.<ext>"                                            *)
(* ------------------------------------------------------------------ *)
Exts == {"tmp", "upt", "bin"}

Pow10(k) == IF k = 0 THEN 1 ELSE IF k = 1 THEN 10 ELSE IF k = 2 THEN 100
            ELSE IF k = 3 THEN 1000 ELSE IF k = 4 THEN 10000
            ELSE IF k = 5 THEN 100000 ELSE IF k = 6 THEN 1000000
            ELSE IF k = 7 THEN 10000000 ELSE IF k = 8 THEN 100000000
            ELSE 1000000000

\* snprintf("%010u", ts): ten ASCII digits, most significant first.
Fmt010(ts) == [i \in 1..NAME_DIGITS |-> 48 + ((ts \div Pow10(NAME_DIGITS - i)) % 10)]

\* ".tmp", ".upt", ".bin" as ASCII.
ExtChars(ext) == CASE ext = "bin" -> <<46, 98, 105, 110>>
                   [] ext = "upt" -> <<46, 117, 112, 116>>
                   [] OTHER       -> <<46, 116, 109, 112>>

\* The directory entry name of the file (ts, ext).
NameStr(n) == Fmt010(n.ts) \o ExtChars(n.ext)

FileName(ts, ext) == [ts |-> ts, ext |-> ext]

RECURSIVE StrCmpFrom(_, _, _)
StrCmpFrom(a, b, i) ==
    IF i > Len(a) /\ i > Len(b) THEN 0
    ELSE IF i > Len(a) THEN -1
    ELSE IF i > Len(b) THEN 1
    ELSE IF a[i] < b[i] THEN -1
    ELSE IF a[i] > b[i] THEN 1
    ELSE StrCmpFrom(a, b, i + 1)

\* strcmp(a, b): negative, zero or positive.
StrCmp(a, b) == StrCmpFrom(a, b, 1)

\* nlen > 4 && strcmp(name + nlen - 4, ".bin") == 0
is_bin_wrong(s) == TRUE
is_bin(s) == Len(s) > 4 /\ StrCmp(SubSeq(s, Len(s) - 3, Len(s)), ExtChars("bin")) = 0

\* The omi enumerator keeps .bin names; the fw enumerator keeps every file.
Enumerated(v, n) == IF v = "omi" THEN is_bin(NameStr(n)) ELSE TRUE

(* ------------------------------------------------------------------ *)
(* Chunk files                                                          *)
(* ------------------------------------------------------------------ *)
\* A file: hdr (the 17 header bytes are written), magic (they start with
\* RCLO), hts (ts at offset 4), rate (sample_rate at offset 9), dsz (data_size
\* at offset 13) and body, the frames written after the header, each as its
\* length in bytes.
RECURSIVE BodyBytes(_)
BodyBytes(body) == IF body = <<>> THEN 0
                   ELSE 2 + Head(body) + BodyBytes(Tail(body))

FileSize(f) == (IF f.hdr THEN FILE_HDR_SIZE ELSE 0) + BodyBytes(f.body)

ChunkFile(ts, dsz, body) ==
    [hdr |-> TRUE, magic |-> TRUE, hts |-> ts, rate |-> SAMPLE_RATE, dsz |-> dsz,
     body |-> body]

\* fs_unlink(path): the store without that name (absent: an error, no change).
Unlink(st, n) == [m \in (DOMAIN st) \ {n} |-> st[m]]

BinNames(st) == {n \in DOMAIN st : n.ext = "bin"}

(* ------------------------------------------------------------------ *)
(* State                                                                *)
(* ------------------------------------------------------------------ *)
VARIABLES
    store,            \* the files of RECLO_STORAGE_DIR, by name
    conn,             \* _conn != NULL
    notify_enabled,   \* _notify_enabled
    upload_active,    \* _upload_active
    upload_sem,       \* count of _upload_sem (0..1)
    ctrl_err,         \* the last ctrl_write returned BT_GATT_ERR(...)
    dup_req,          \* history: a REQUEST_UPLOAD found _upload_active set, in this batch
    up_pc,            \* position of upload_thread_fn
    paths,            \* paths[0..count-1] of upload_thread_fn
    up_i,             \* loop index i of upload_thread_fn
    cur,              \* locals of upload_one_chunk
    sent,             \* packets notified in the batch in progress
    uploaded,         \* chunk indexes whose upload_one_chunk returned 0
    reoffered,        \* history: the last enumeration kept a path of the one before
    abort_at,         \* history: <<Len(sent)>> when ABORT arrived in this batch
    hard_err,         \* history: a header or data send of this batch failed hard
    link_lost,        \* history: the link dropped after the CHUNK_HEADER of the chunk in progress
    uptime,           \* k_uptime_get() / 1000
    synced,           \* the clock has been set since boot
    boots,            \* number of boots before this one
    recording,        \* _recording
    file_open,        \* _file_open
    write_buf,        \* _write_buf[0.._write_buf_len): frames not yet on disk (fw: _buf)
    total_bytes,      \* _total_bytes_in_chunk
    active_path,      \* _active_path
    chunk_start_ts,   \* _chunk_start_ts
    chunk_unsynced,   \* _chunk_unsynced
    timer_on,         \* _chunk_timer is running
    timer_next,       \* uptime of its next expiry
    timer_due,        \* its status is non-zero: an expiry the flush thread has not taken
    flush_pc,         \* position of flush_thread_fn
    stop_pc,          \* position of reclo_recorder_stop
    btn_ready,        \* the button has been released since it last toggled
    rt_pending,       \* _retimestamp_work is submitted
    rt_pc,            \* position of reclo_recorder_retimestamp
    rt_now,           \* its locals now_utc_s, now_up_s
    rt_list,          \* its upt_ts[i..upt_count)
    rt_count,         \* its upt_count
    sc                \* fw: reclo_transfer_store_chunk in progress (pc, ts, data)

storeVars == <<store>>
linkVars == <<conn, notify_enabled, upload_active, upload_sem, ctrl_err, dup_req>>
workerVars == <<up_pc, paths, up_i, cur, sent, uploaded, reoffered>>
clockVars == <<uptime, synced, boots>>
recVars == <<recording, file_open, write_buf, total_bytes, active_path,
             chunk_start_ts, chunk_unsynced>>
timerVars == <<timer_on, timer_next, timer_due>>
threadVars == <<flush_pc, stop_pc, btn_ready>>
rtVars == <<rt_pending, rt_pc, rt_now, rt_list, rt_count>>
recorderVars == <<clockVars, recVars, timerVars, threadVars, rtVars, sc>>
vars == <<store, conn, notify_enabled, upload_active, upload_sem, ctrl_err, dup_req,
          up_pc, paths, up_i, cur, sent, uploaded, reoffered, abort_at, hard_err, link_lost,
          recorderVars>>

NoChunk == [ts |-> 0, dsz |-> 0, total_seqs |-> 0, seq |-> 0, off |-> 0, size |-> 0]

\* _active_path before the first open_chunk_file: the empty string.
NoPath == [ts |-> 0, ext |-> ""]

\* reclo_transfer_store_chunk is not running.
NoStoreChunk == [pc |-> "idle", ts |-> 0, data |-> <<>>]

(* ------------------------------------------------------------------ *)
(* Link events and control writes                                       *)
(* ------------------------------------------------------------------ *)
\* _on_connected(conn, err) with err = 0.
on_connected ==
    /\ ~conn
    /\ conn' = TRUE
    /\ UNCHANGED <<notify_enabled, upload_active, upload_sem, ctrl_err, dup_req>>
    /\ UNCHANGED <<storeVars, workerVars, abort_at, hard_err, link_lost>>
    /\ UNCHANGED recorderVars

\* _on_disconnected.
on_disconnected ==
    /\ conn
    /\ upload_active' = FALSE
    /\ notify_enabled' = FALSE
    /\ conn' = FALSE
    /\ UNCHANGED <<upload_sem, ctrl_err, dup_req>>
    /\ link_lost' = (link_lost \/ up_pc \in {"dopen", "data"})
    /\ UNCHANGED <<storeVars, workerVars, abort_at, hard_err>>
    /\ UNCHANGED recorderVars

\* data_ccc_changed(value): value = BT_GATT_CCC_NOTIFY or not.
data_ccc_changed(on) ==
    /\ conn
    /\ notify_enabled' = on
    /\ UNCHANGED <<conn, upload_active, upload_sem, ctrl_err, dup_req>>
    /\ UNCHANGED <<storeVars, workerVars, abort_at, hard_err, link_lost>>
    /\ UNCHANGED recorderVars

\* k_sem_give on a semaphore of limit 1.
SemGive(count) == IF count < 1 THEN count + 1 ELSE 1

\* The path ACK_CHUNK unlinks: "%s/%010u.bin".
AckPathWrong(ts) == FileName(ts, "upt")
AckPath(ts) == FileName(ts, "bin")

\* The condition under which REQUEST_UPLOAD sets the flag and gives the semaphore.
RequestAlways == TRUE
RequestAccepted == ~upload_active

\* A batch is in progress and a CHUNK_HEADER of it has been notified.
HeaderInFlight ==
    /\ up_pc \in {"loop", "open", "hdr", "dopen", "data"}
    /\ \E i \in DOMAIN sent : sent[i].type = RECLO_PKT_CHUNK_HEADER

\* ctrl_write(buf, len): data[0] = cmd, data[1..4] = ts. A GATT write arrives
\* on an established link.
ctrl_write(len, cmd, ts) ==
    /\ conn
    /\ IF len = 0
       THEN /\ ctrl_err' = TRUE
            /\ UNCHANGED <<store, upload_active, upload_sem>>
       ELSE /\ ctrl_err' = FALSE
            /\ CASE cmd = RECLO_CMD_REQUEST_UPLOAD ->
                      /\ IF RequestAccepted
                         THEN /\ upload_active' = TRUE
                              /\ upload_sem' = SemGive(upload_sem)
                         ELSE UNCHANGED <<upload_active, upload_sem>>
                      /\ UNCHANGED store
                 [] cmd = RECLO_CMD_ACK_CHUNK ->
                      /\ IF len >= 5
                         THEN store' = Unlink(store, AckPath(ts))
                         ELSE UNCHANGED store
                      /\ UNCHANGED <<upload_active, upload_sem>>
                 [] cmd = RECLO_CMD_ABORT ->
                      /\ upload_active' = FALSE
                      /\ UNCHANGED <<store, upload_sem>>
                 [] OTHER ->
                      UNCHANGED <<store, upload_active, upload_sem>>
    /\ dup_req' = (dup_req \/ (len # 0 /\ cmd = RECLO_CMD_REQUEST_UPLOAD /\ upload_active))
    /\ UNCHANGED <<hard_err, link_lost>>
    /\ abort_at' = IF len # 0 /\ cmd = RECLO_CMD_ABORT /\ abort_at = <<>> /\ HeaderInFlight
                   THEN <<Len(sent)>> ELSE abort_at
    /\ UNCHANGED <<conn, notify_enabled>>
    /\ UNCHANGED workerVars
    /\ UNCHANGED recorderVars

(* ------------------------------------------------------------------ *)
(* Upload worker                                                        *)
(* ------------------------------------------------------------------ *)
\* What bt_gatt_notify can return on a live, subscribed link.
NotifyResults == {"OK", "EAGAIN", "ENOMEM"}

\* send_packet: -ENOTCONN without a link or a subscription, else the result
\* of bt_gatt_notify.
send_packet(nr) == IF ~conn \/ ~notify_enabled THEN "ENOTCONN" ELSE nr

\* A result of send_packet other than 0 and -EAGAIN.
HardError(r) == r # "OK" /\ r # "EAGAIN"

\* The packet reaches the phone only when bt_gatt_notify returned 0.
Notified(pkt, r) == IF r = "OK" THEN Append(sent, pkt) ELSE sent

Packet(type, c, idx, total, seq, len, crc, off) ==
    [type |-> type, ts |-> c.ts, idx |-> idx, total |-> total, seq |-> seq,
     total_seqs |-> c.total_seqs, len |-> len, dsz |-> c.dsz, crc |-> crc,
     off |-> off]

\* memset(&done, 0, ...); done.pkt_type = RECLO_PKT_UPLOAD_DONE.
DonePacketAsHeader == Packet(RECLO_PKT_CHUNK_HEADER, NoChunk, 0, 0, 0, 0, <<>>, 0)
DonePacket == Packet(RECLO_PKT_UPLOAD_DONE, NoChunk, 0, 0, 0, 0, <<>>, 0)

Range(q) == {q[i] : i \in DOMAIN q}

Smaller(a, b) == IF a < b THEN a ELSE b

\* One pass of the insertion sort's inner loop: paths[j] sinks while its left
\* neighbour compares greater (1-based positions).
RECURSIVE Sink(_, _)
Sink(p, j) ==
    IF j > 1 /\ StrCmp(NameStr(p[j - 1]), NameStr(p[j])) > 0
    THEN Sink([p EXCEPT ![j - 1] = p[j], ![j] = p[j - 1]], j - 1)
    ELSE p

RECURSIVE SortFrom(_, _)
SortFrom(p, i) == IF i > Len(p) THEN p ELSE SortFrom(Sink(p, i), i + 1)

\* for (i = 1; i < count; i++) { ... } of upload_thread_fn.
SortPathsWrong(p) == p
SortPaths(p) == SortFrom(p, 2)

\* The orders in which readdir can return the files: every sequence without
\* repeats over a set.
Orders(S) == {f \in [1..Cardinality(S) -> S] : \A i, j \in DOMAIN f : f[i] = f[j] => i = j}

\* The table the enumeration loop leaves: the entries it keeps, in directory
\* order, cut at RECLO_MAX_CHUNKS.
TablesOffByOne(v, st) ==
    LET keep == {n \in DOMAIN st : Enumerated(v, n)}
        k == IF Cardinality(keep) < RECLO_MAX_CHUNKS - 1 THEN Cardinality(keep)
             ELSE RECLO_MAX_CHUNKS - 1
    IN UNION {Orders(S) : S \in {T \in SUBSET keep : Cardinality(T) = k}}
Tables(v, st) ==
    LET keep == {n \in DOMAIN st : Enumerated(v, n)}
        k == IF Cardinality(keep) < RECLO_MAX_CHUNKS THEN Cardinality(keep)
             ELSE RECLO_MAX_CHUNKS
    IN UNION {Orders(S) : S \in {T \in SUBSET keep : Cardinality(T) = k}}

\* k_sem_take, then the link check.
UpWake ==
    /\ up_pc = "wait"
    /\ upload_sem = 1
    /\ upload_sem' = 0
    /\ UNCHANGED <<paths, up_i, cur, sent, uploaded, reoffered, abort_at, hard_err, link_lost>>
    /\ IF ~conn \/ ~notify_enabled
       THEN upload_active' = FALSE /\ up_pc' = "wait"
       ELSE upload_active' = upload_active /\ up_pc' = "enum"
    /\ UNCHANGED <<conn, notify_enabled, ctrl_err, dup_req, storeVars>>
    /\ UNCHANGED recorderVars

\* The enumeration, the UPLOAD_DONE of an empty store, the sort.
UpEnumerate(v, nr) ==
    /\ up_pc = "enum"
    /\ \E t \in Tables(v, store) :
         IF Len(t) = 0
         THEN /\ sent' = Notified(DonePacket, send_packet(nr))
              /\ up_pc' = "clear"
              /\ UNCHANGED <<paths, reoffered>>
         ELSE /\ paths' = SortPaths(t)
              /\ reoffered' = (\E i \in DOMAIN paths, j \in DOMAIN t : paths[i] = t[j])
              /\ up_pc' = "loop"
              /\ UNCHANGED sent
    /\ UNCHANGED <<up_i, cur, uploaded, abort_at, hard_err, link_lost>>
    /\ UNCHANGED <<linkVars, storeVars>>
    /\ UNCHANGED recorderVars

\* for (...; i < count && _upload_active; ...)
UpLoopHead ==
    /\ up_pc = "loop"
    /\ up_pc' = IF up_i < Len(paths) /\ upload_active THEN "open" ELSE "fin"
    /\ link_lost' = FALSE
    /\ UNCHANGED <<paths, up_i, cur, sent, uploaded, reoffered, abort_at, hard_err>>
    /\ UNCHANGED <<linkVars, storeVars>>
    /\ UNCHANGED recorderVars

\* upload_one_chunk returned an error other than -ECANCELED, or 0 (its locals
\* are gone): k_msleep(20); i++.
NextChunkStays == up_i' = up_i /\ up_pc' = "loop" /\ cur' = NoChunk
NextChunk == up_i' = up_i + 1 /\ up_pc' = "loop" /\ cur' = NoChunk

\* data_size after the recovery of an unfinalized chunk (omi build only).
RecoveredWrong(v, f) == f.dsz
Recovered(v, f) ==
    IF v = "omi" /\ f.dsz = 0 /\ FileSize(f) > FILE_HDR_SIZE
    THEN FileSize(f) - FILE_HDR_SIZE
    ELSE f.dsz

\* The early returns of upload_one_chunk: fs_open fails, fs_read gives fewer
\* than 17 bytes, the magic is not RCLO, data_size is 0 after the recovery.
SkippedOnlyMissing(v, st, p) == p \notin DOMAIN st
Skipped(v, st, p) ==
    \/ p \notin DOMAIN st
    \/ ~st[p].hdr
    \/ ~st[p].magic
    \/ (v = "omi" /\ Recovered(v, st[p]) = 0)

\* upload_one_chunk, to the fs_close after the header was read.
UpChunkOpen(v) ==
    /\ up_pc = "open"
    /\ LET p == paths[up_i + 1] IN
       IF Skipped(v, store, p)
       THEN NextChunk
       ELSE /\ cur' = [NoChunk EXCEPT !.ts = store[p].hts,
                                      !.dsz = Recovered(v, store[p])]
            /\ up_pc' = "hdr"
            /\ UNCHANGED up_i
    /\ UNCHANGED <<paths, sent, uploaded, reoffered, abort_at, hard_err, link_lost>>
    /\ UNCHANGED <<linkVars, storeVars>>
    /\ UNCHANGED recorderVars

\* (uint16_t)((data_size + RECLO_PAYLOAD_SIZE - 1) / RECLO_PAYLOAD_SIZE)
DataSeqsFloor(dsz) == (dsz \div RECLO_PAYLOAD_SIZE) % UINT16_MOD
DataSeqs(dsz) == ((dsz + RECLO_PAYLOAD_SIZE - 1) \div RECLO_PAYLOAD_SIZE) % UINT16_MOD

\* The CRC pass reads the body to the end of the file; the CRC is kept as the
\* bytes it was computed over. A file that is gone gives the CRC of nothing.
CrcPassNothing(p) == <<>>
CrcPass(p) == IF p \in DOMAIN store THEN store[p].body ELSE <<>>

\* (uint16_t)count, the total_chunks of the packets of upload_one_chunk.
TotalChunksUncapped == Cardinality(BinNames(store))
TotalChunks == Len(paths) % UINT16_MOD

\* upload_one_chunk: the CRC pass and the CHUNK_HEADER packet.
UpSendHeader(nr) ==
    /\ up_pc = "hdr"
    /\ LET p == paths[up_i + 1]
           c == [cur EXCEPT !.total_seqs = (1 + DataSeqs(cur.dsz)) % UINT16_MOD]
           r == send_packet(nr)
       IN /\ sent' = Notified(Packet(RECLO_PKT_CHUNK_HEADER, c, up_i, TotalChunks,
                                     0, 13, CrcPass(p), 0), r)
          /\ IF r = "OK" THEN cur' = c /\ up_pc' = "dopen" /\ UNCHANGED up_i
             ELSE NextChunk
    /\ hard_err' = (hard_err \/ HardError(send_packet(nr)))
    /\ link_lost' = FALSE
    /\ UNCHANGED <<paths, uploaded, reoffered, abort_at>>
    /\ UNCHANGED <<linkVars, storeVars>>
    /\ UNCHANGED recorderVars

\* upload_one_chunk: fs_open for the data pass. The handle reads the body the
\* file had when it was opened.
UpDataOpen ==
    /\ up_pc = "dopen"
    /\ LET p == paths[up_i + 1] IN
       IF p \notin DOMAIN store
       THEN NextChunk
       ELSE /\ cur' = [cur EXCEPT !.seq = 1, !.off = 0,
                                  !.size = BodyBytes(store[p].body)]
            /\ up_pc' = "data"
            /\ UNCHANGED up_i
    /\ UNCHANGED <<paths, sent, uploaded, reoffered, abort_at, hard_err, link_lost>>
    /\ UNCHANGED <<linkVars, storeVars>>
    /\ UNCHANGED recorderVars

\* What the data loop does with the result of send_packet: it leaves the
\* chunk on a hard error and goes on after 0 or -EAGAIN.
DataGoesOn(r) == ~HardError(r)

\* One turn of while ((n = fs_read(&fd, buf, RECLO_PAYLOAD_SIZE)) > 0).
UpDataStep(nr) ==
    /\ up_pc = "data"
    /\ LET left == cur.size - cur.off
           n == IF left < RECLO_PAYLOAD_SIZE THEN left ELSE RECLO_PAYLOAD_SIZE
           r == send_packet(nr)
       IN IF n = 0
          THEN /\ NextChunk
               /\ uploaded' = uploaded \cup {up_i}
               /\ UNCHANGED sent
          ELSE IF ~upload_active
          THEN /\ up_pc' = "fin"
               /\ cur' = NoChunk
               /\ UNCHANGED <<up_i, sent, uploaded>>
          ELSE /\ sent' = Notified(Packet(RECLO_PKT_CHUNK_DATA, cur, up_i, TotalChunks,
                                          cur.seq, n, <<>>, cur.off), r)
               /\ IF DataGoesOn(r)
                  THEN /\ cur' = [cur EXCEPT !.seq = (cur.seq + 1) % UINT16_MOD,
                                             !.off = cur.off + n]
                       /\ up_pc' = "data"
                       /\ UNCHANGED up_i
                  ELSE NextChunk
               /\ UNCHANGED uploaded
    /\ hard_err' = (hard_err \/ (cur.off < cur.size /\ upload_active /\ HardError(send_packet(nr))))
    /\ UNCHANGED link_lost
    /\ UNCHANGED <<paths, reoffered, abort_at>>
    /\ UNCHANGED <<linkVars, storeVars>>
    /\ UNCHANGED recorderVars

\* Where the worker goes after the UPLOAD_DONE test.
AfterDoneWrong == "fin"
AfterDone == "clear"

\* if (_upload_active) { send_packet(&done); }
UpFinish(nr) ==
    /\ up_pc = "fin"
    /\ sent' = IF upload_active THEN Notified(DonePacket, send_packet(nr)) ELSE sent
    /\ up_pc' = AfterDone
    /\ UNCHANGED <<paths, up_i, cur, uploaded, reoffered, abort_at, hard_err, link_lost>>
    /\ UNCHANGED <<linkVars, storeVars>>
    /\ UNCHANGED recorderVars

\* _upload_active = false; back to k_sem_take. The batch is over: its log
\* and the loop's locals are dropped.
UpClear ==
    /\ up_pc = "clear"
    /\ upload_active' = FALSE
    /\ up_pc' = "wait"
    /\ sent' = <<>>
    /\ uploaded' = {}
    /\ up_i' = 0
    /\ abort_at' = <<>>
    /\ hard_err' = FALSE
    /\ link_lost' = FALSE
    /\ UNCHANGED <<paths, cur, reoffered>>
    /\ dup_req' = FALSE
    /\ UNCHANGED <<conn, notify_enabled, upload_sem, ctrl_err, storeVars>>
    /\ UNCHANGED recorderVars

(* ------------------------------------------------------------------ *)
(* Clock                                                                *)
(* ------------------------------------------------------------------ *)
\* Wall-clock seconds at the start of boot b: each boot starts BootGap after
\* the one before, so that the wall clock never runs backward.
WallAtBoot(b) == Wall0 + b * BootGap

\* get_utc_time(): 0 until the clock has been set, then epoch seconds.
get_utc_time == IF synced THEN WallAtBoot(boots) + uptime ELSE 0

\* The uptime at which a timer armed now next expires.
TimerPeriod(now) == now + RECLO_CHUNK_DURATION_S

(* ------------------------------------------------------------------ *)
(* Filesystem                                                           *)
(* ------------------------------------------------------------------ *)
\* fs_open(FS_O_CREATE | FS_O_WRITE | FS_O_TRUNC) followed by the writes that
\* leave the file f.
Create(st, n, f) == [m \in (DOMAIN st) \cup {n} |-> IF m = n THEN f ELSE st[m]]

\* fs_rename(from, to): an object already at the destination is unlinked
\* before the rename.
Rename(st, from, to) ==
    IF from \notin DOMAIN st THEN st
    ELSE [m \in ((DOMAIN st) \ {from}) \cup {to} |->
             IF m = to THEN st[from] ELSE st[m]]

\* fs_write of buffered frames at the end of the file.
WriteBodyWrong(st, n, frames) ==
    IF n \in DOMAIN st THEN [st EXCEPT ![n].body = frames \o @] ELSE st
WriteBody(st, n, frames) ==
    IF n \in DOMAIN st THEN [st EXCEPT ![n].body = @ \o frames] ELSE st

\* fs_seek(13) and fs_write of data_size.
WriteDataSizeWrong(st, n, dsz) == st
WriteDataSize(st, n, dsz) ==
    IF n \in DOMAIN st THEN [st EXCEPT ![n].dsz = dsz] ELSE st

\* fs_seek(4) and fs_write of the timestamp.
WriteTsNothing(st, n, ts) == st
WriteTs(st, n, ts) ==
    IF n \in DOMAIN st THEN [st EXCEPT ![n].hts = ts] ELSE st

(* ------------------------------------------------------------------ *)
(* Streaming recorder (omi build)                                       *)
(* ------------------------------------------------------------------ *)
\* write_initial_header: magic, ts, codec, rate and data_size = 0.
write_initial_header(ts) == ChunkFile(ts, 0, <<>>)

\* The name finalize_chunk publishes under.
FinalPath == FileName(chunk_start_ts, IF chunk_unsynced THEN "upt" ELSE "bin")

\* finalize_chunk: flush the RAM buffer, back-fill data_size, close, rename.
finalize_chunk(st, renamed) ==
    LET flushed == WriteBody(st, active_path, write_buf)
        filled == WriteDataSize(flushed, active_path, total_bytes)
    IN IF renamed THEN Rename(filled, active_path, FinalPath) ELSE filled

\* open_chunk_file on the store st, with _file_open = wasOpen and the buffer
\* holding buffered: the timestamp argument is unused; the chunk is named after
\* the uptime and marked unsynced. _active_path is written before fs_open.
open_chunk_file(st, wasOpen, buffered, opened) ==
    LET ts == uptime
        path == FileName(ts, "tmp")
    IN /\ active_path' = path
       /\ IF opened
          THEN /\ store' = Create(st, path, write_initial_header(ts))
               /\ file_open' = TRUE
               /\ chunk_unsynced' = TRUE
               /\ write_buf' = <<>>
               /\ total_bytes' = 0
               /\ chunk_start_ts' = ts
          ELSE /\ store' = st
               /\ file_open' = wasOpen
               /\ write_buf' = buffered
               /\ UNCHANGED <<chunk_unsynced, total_bytes, chunk_start_ts>>

transferVars == <<linkVars, workerVars, abort_at, hard_err, link_lost>>

\* if (_recording) return; of reclo_recorder_start.
AlreadyRecordingNever == FALSE
AlreadyRecording == recording

\* if (!_recording) return; of reclo_recorder_stop.
NotRecording == ~recording

\* reclo_recorder_start, called by the button handler.
reclo_recorder_start(opened) ==
    /\ btn_ready /\ stop_pc = "idle"
    /\ btn_ready' = FALSE
    /\ IF AlreadyRecording
       THEN UNCHANGED <<store, recVars, timerVars>>
       ELSE /\ open_chunk_file(store, file_open, write_buf, opened)
            /\ IF opened
               THEN /\ recording' = TRUE
                    /\ timer_on' = TRUE
                    /\ timer_next' = TimerPeriod(uptime)
                    /\ timer_due' = FALSE
               ELSE UNCHANGED <<recording, timerVars>>
    /\ UNCHANGED <<clockVars, flush_pc, stop_pc, rtVars, sc, transferVars>>

\* reclo_recorder_stop up to set_codec_callback(NULL): the timer is stopped
\* and _recording cleared before the lock is taken.
reclo_recorder_stop ==
    /\ btn_ready /\ stop_pc = "idle"
    /\ btn_ready' = FALSE
    /\ IF NotRecording
       THEN UNCHANGED <<timer_on, timer_due, recording, stop_pc>>
       ELSE /\ timer_on' = FALSE
            /\ timer_due' = FALSE
            /\ recording' = FALSE
            /\ stop_pc' = "fin"
    /\ UNCHANGED <<store, clockVars, file_open, write_buf, total_bytes, active_path,
                   chunk_start_ts, chunk_unsynced, timer_next, flush_pc, rtVars, sc,
                   transferVars>>

\* reclo_recorder_stop from k_mutex_lock on.
StopFinalize(renamed) ==
    /\ stop_pc = "fin"
    /\ IF file_open
       THEN /\ store' = finalize_chunk(store, renamed)
            /\ file_open' = FALSE
            /\ write_buf' = <<>>
       ELSE UNCHANGED <<store, file_open, write_buf>>
    /\ stop_pc' = "idle"
    /\ UNCHANGED <<clockVars, recording, total_bytes, active_path, chunk_start_ts,
                   chunk_unsynced, timerVars, flush_pc, btn_ready, rtVars, sc,
                   transferVars>>

FramesInChunk == IF active_path \in DOMAIN store
                 THEN Len(store[active_path].body) + Len(write_buf)
                 ELSE Len(write_buf)

\* if (2 + len > RECLO_STREAM_BUF_SIZE) { ... return; } does not drop the frame.
FrameFitsWrong(len) == len <= RECLO_STREAM_BUF_SIZE
FrameFits(len) == 2 + len <= RECLO_STREAM_BUF_SIZE

\* if (_write_buf_len + 2 + len > RECLO_STREAM_BUF_SIZE): the buffer is written
\* out before the frame goes in.
WouldOverflowNever(buffered, len) == FALSE
WouldOverflow(buffered, len) == buffered + 2 + len > RECLO_STREAM_BUF_SIZE

AcceptedWithoutFile(len) == recording /\ len # 0 /\ len < UINT16_MOD /\ FrameFits(len)

\* The tests of on_codec_output a frame passes on its way to the buffer.
Accepted(len) ==
    /\ recording /\ len # 0 /\ len < UINT16_MOD
    /\ file_open
    /\ FrameFits(len)

\* on_codec_output(data, len): a frame that fails a test is dropped and
\* nothing changes; any other is buffered behind its length prefix, after a
\* write of the buffer to the file when the buffer could not hold both.
on_codec_output(len) ==
    IF Accepted(len)
    THEN /\ FramesInChunk < MaxFrames
         /\ IF WouldOverflow(BodyBytes(write_buf), len)
            THEN /\ store' = WriteBody(store, active_path, write_buf)
                 /\ write_buf' = <<len>>
            ELSE /\ write_buf' = Append(write_buf, len)
                 /\ UNCHANGED store
         /\ total_bytes' = total_bytes + 2 + len
         /\ UNCHANGED <<clockVars, recording, file_open, active_path, chunk_start_ts,
                        chunk_unsynced, timerVars, threadVars, rtVars, sc, transferVars>>
    ELSE UNCHANGED vars

\* One second passes: the button is released, a running timer may expire.
Tick(cap) ==
    /\ uptime < cap
    /\ uptime' = uptime + 1
    /\ btn_ready' = TRUE
    /\ IF timer_on /\ uptime + 1 >= timer_next
       THEN timer_due' = TRUE /\ timer_next' = TimerPeriod(timer_next)
       ELSE UNCHANGED <<timer_due, timer_next>>
    /\ UNCHANGED <<store, synced, boots, recVars, timer_on, flush_pc, stop_pc, rtVars,
                   sc, transferVars>>

\* flush_thread_fn: k_timer_status_sync returns and _recording is tested.
FlushWake ==
    /\ flush_pc = "wait" /\ timer_due
    /\ timer_due' = FALSE
    /\ flush_pc' = IF recording THEN "rotate" ELSE "wait"
    /\ UNCHANGED <<store, clockVars, recVars, timer_on, timer_next, stop_pc, btn_ready,
                   rtVars, sc, transferVars>>

\* rotate_chunk, under the lock.
rotate_chunk(renamed, opened) ==
    /\ flush_pc = "rotate"
    /\ IF file_open
       THEN open_chunk_file(finalize_chunk(store, renamed), FALSE, <<>>, opened)
       ELSE open_chunk_file(store, file_open, write_buf, opened)
    /\ flush_pc' = "wait"
    /\ UNCHANGED <<clockVars, recording, timerVars, stop_pc, btn_ready, rtVars, sc,
                   transferVars>>

(* ------------------------------------------------------------------ *)
(* Retimestamping (omi build)                                           *)
(* ------------------------------------------------------------------ *)
\* real_ts = now_utc_s - elapsed in uint32 arithmetic, elapsed clamped at 0.
RealTsWrong(W, U, file_ts) == W
RealTs(W, U, file_ts) ==
    LET elapsed == IF U >= file_ts THEN U - file_ts ELSE 0
    IN (W - elapsed + TsMod) % TsMod

\* The value of the first k digit characters of d.
RECURSIVE Digits(_, _)
Digits(d, k) == IF k = 0 THEN 0 ELSE 10 * Digits(d, k - 1) + (d[k] - 48)

\* strtoul(ts_str, NULL, 10) on ten digit characters.
strtoul(d) == Digits(d, Len(d))

\* nlen == 14 && strcmp(ent.name + 10, ".upt") == 0
is_upt(nm) == Len(nm) = 14 /\ StrCmp(SubSeq(nm, 11, Len(nm)), ExtChars("upt")) = 0

\* The upt_ts[] a directory scan can collect: the timestamps of .upt names in
\* any directory order, cut at RECLO_MAX_CHUNKS.
UptLists(st) ==
    LET upt == {n \in DOMAIN st : is_upt(NameStr(n))}
        k == Smaller(Cardinality(upt), RECLO_MAX_CHUNKS)
        picks == UNION {Orders(S) : S \in {T \in SUBSET upt : Cardinality(T) = k}}
    IN {[i \in DOMAIN q |-> strtoul(SubSeq(NameStr(q[i]), 1, NAME_DIGITS))] : q \in picks}

NoNow == [utc |-> 0, up |-> 0]

\* The phone sets the clock; the transport schedules the retimestamp work.
TimeSync ==
    /\ synced' = TRUE
    /\ rt_pending' = TRUE
    /\ UNCHANGED <<store, uptime, boots, recVars, timerVars, threadVars, rt_pc, rt_now,
                   rt_list, rt_count, sc, transferVars>>

\* reclo_recorder_retimestamp to k_mutex_unlock: the open chunk, if unsynced,
\* is flushed, patched, closed, renamed to "<real_ts>.tmp" and reopened.
RtOpenChunk(renamed) ==
    /\ rt_pending /\ rt_pc = "idle"
    /\ rt_pending' = FALSE
    /\ IF get_utc_time = 0
       THEN UNCHANGED <<store, recVars, rt_pc, rt_now>>
       ELSE /\ rt_now' = [utc |-> get_utc_time, up |-> uptime]
            /\ rt_pc' = "scan"
            /\ IF file_open /\ chunk_unsynced
               THEN LET real_ts == RealTs(get_utc_time, uptime, chunk_start_ts)
                        new_path == FileName(real_ts, "tmp")
                        patched == WriteTs(WriteBody(store, active_path, write_buf),
                                           active_path, real_ts)
                        path == IF renamed THEN new_path ELSE active_path
                    IN /\ store' = IF renamed THEN Rename(patched, active_path, new_path)
                                   ELSE patched
                       /\ active_path' = path
                       /\ file_open' = (path \in DOMAIN store')
                       /\ write_buf' = <<>>
                       /\ chunk_start_ts' = real_ts
                       /\ chunk_unsynced' = FALSE
                       /\ UNCHANGED <<recording, total_bytes>>
               ELSE UNCHANGED <<store, recVars>>
    /\ UNCHANGED <<clockVars, timerVars, threadVars, rt_list, rt_count, sc, transferVars>>

\* The directory scan for .upt files.
RtScan ==
    /\ rt_pc = "scan"
    /\ \E q \in UptLists(store) : rt_list' = q /\ rt_count' = Len(q)
    /\ rt_pc' = "files"
    /\ UNCHANGED <<store, clockVars, recVars, timerVars, threadVars, rt_pending, rt_now,
                   sc, transferVars>>

\* The names and the timestamp of the pass of the rename loop for upt_ts[i].
RtPass == [real_ts |-> RealTs(rt_now.utc, rt_now.up, Head(rt_list)),
           old_path |-> FileName(Head(rt_list), "upt"),
           new_path |-> FileName(RealTs(rt_now.utc, rt_now.up, Head(rt_list)), "bin")]

\* One pass of the rename loop, to fs_close: the header timestamp of the
\* .upt file is overwritten in place.
RtPatch ==
    /\ rt_pc = "files" /\ rt_list # <<>>
    /\ store' = WriteTs(store, RtPass.old_path, RtPass.real_ts)
    /\ rt_pc' = "rename"
    /\ UNCHANGED <<clockVars, recVars, timerVars, threadVars, rt_pending, rt_now,
                   rt_list, rt_count, sc, transferVars>>

\* fs_rename returned an error: the file is where it was.
RenameFailedLosesFile(st, old) == Unlink(st, old)
RenameFailed(st, old) == st

\* The rest of the pass: fs_rename to the .bin name, i++.
RtFile(renamed) ==
    /\ rt_pc = "rename"
    /\ store' = IF renamed THEN Rename(store, RtPass.old_path, RtPass.new_path)
                ELSE RenameFailed(store, RtPass.old_path)
    /\ rt_list' = Tail(rt_list)
    /\ rt_pc' = "files"
    /\ UNCHANGED <<clockVars, recVars, timerVars, threadVars, rt_pending, rt_now,
                   rt_count, sc, transferVars>>

ResubmitNever(upt_count) == FALSE

\* if (upt_count == RECLO_MAX_CHUNKS) k_work_submit(&_retimestamp_work).
Resubmit(upt_count) == upt_count = RECLO_MAX_CHUNKS

\* After the loop: a full table resubmits the work.
RtEnd ==
    /\ rt_pc = "files" /\ rt_list = <<>>
    /\ rt_pending' = (rt_pending \/ Resubmit(rt_count))
    /\ rt_pc' = "idle"
    /\ rt_now' = NoNow
    /\ rt_count' = 0
    /\ UNCHANGED <<store, clockVars, recVars, timerVars, threadVars, rt_list, sc,
                   transferVars>>


(* ------------------------------------------------------------------ *)
(* Accumulating recorder and chunk storage (fw build)                   *)
(* ------------------------------------------------------------------ *)
\* reclo_time_get(): uptime seconds until the clock is set, then epoch seconds.
reclo_time_get == IF synced THEN WallAtBoot(boots) + uptime ELSE uptime

\* reclo_time_set(epoch_seconds), the phone passing the wall-clock time.
reclo_time_set ==
    /\ synced' = TRUE
    /\ UNCHANGED <<store, uptime, boots, recVars, timerVars, threadVars, rtVars, sc,
                   transferVars>>

\* reclo_recorder_start of the fw build, called by main at boot.
fw_recorder_start ==
    /\ ~recording
    /\ write_buf' = <<>>
    /\ chunk_start_ts' = reclo_time_get
    /\ recording' = TRUE
    /\ timer_on' = TRUE
    /\ timer_next' = TimerPeriod(uptime)
    /\ timer_due' = FALSE
    /\ UNCHANGED <<store, clockVars, file_open, total_bytes, active_path,
                   chunk_unsynced, threadVars, rtVars, sc, transferVars>>

\* on_codec_output of the fw build for a frame it does not drop.
fw_on_codec_output(len) ==
    /\ recording /\ len # 0 /\ len < UINT16_MOD
    /\ BodyBytes(write_buf) + 2 + len <= RECLO_CHUNK_MAX_BYTES
    /\ Len(write_buf) < MaxFrames
    /\ write_buf' = Append(write_buf, len)
    /\ UNCHANGED <<store, clockVars, recording, file_open, total_bytes, active_path,
                   chunk_start_ts, chunk_unsynced, timerVars, threadVars, rtVars, sc,
                   transferVars>>

\* flush_chunk up to the call of reclo_transfer_store_chunk: an empty buffer
\* only restarts the chunk; otherwise the buffer is copied out and reset.
flush_chunk ==
    /\ flush_pc = "rotate"
    /\ chunk_start_ts' = reclo_time_get
    /\ IF write_buf = <<>>
       THEN /\ flush_pc' = "wait"
            /\ UNCHANGED <<write_buf, sc>>
       ELSE /\ sc' = [pc |-> "open", ts |-> chunk_start_ts, data |-> write_buf]
            /\ write_buf' = <<>>
            /\ flush_pc' = "store"
    /\ UNCHANGED <<store, clockVars, recording, file_open, total_bytes, active_path,
                   chunk_unsynced, timerVars, stop_pc, btn_ready, rtVars, transferVars>>

\* The path reclo_transfer_store_chunk writes: "%s/%010u.bin".
StorePath(ts) == FileName(ts, "bin")

\* A file just created or truncated: no bytes.
EmptyFile == [hdr |-> FALSE, magic |-> FALSE, hts |-> 0, rate |-> 0, dsz |-> 0,
              body |-> <<>>]

\* reclo_transfer_store_chunk, one filesystem call at a time: fs_open with
\* FS_O_CREATE | FS_O_TRUNC, fs_write of the header, fs_write of the data,
\* fs_close.
store_chunk_step(opened) ==
    /\ sc.pc # "idle"
    /\ LET path == StorePath(sc.ts)
       IN CASE sc.pc = "open" ->
                 IF opened
                 THEN /\ store' = Create(store, path, EmptyFile)
                      /\ sc' = [sc EXCEPT !.pc = "hdr"]
                      /\ UNCHANGED flush_pc
                 ELSE /\ sc' = NoStoreChunk
                      /\ flush_pc' = "wait"
                      /\ UNCHANGED store
            [] sc.pc = "hdr" ->
                 /\ store' = IF path \in DOMAIN store
                             THEN [store EXCEPT ![path] =
                                      ChunkFile(sc.ts, BodyBytes(sc.data), <<>>)]
                             ELSE store
                 /\ sc' = [sc EXCEPT !.pc = "data"]
                 /\ UNCHANGED flush_pc
            [] sc.pc = "data" ->
                 /\ store' = WriteBody(store, path, sc.data)
                 /\ sc' = [sc EXCEPT !.pc = "close"]
                 /\ UNCHANGED flush_pc
            [] OTHER ->
                 /\ sc' = NoStoreChunk
                 /\ flush_pc' = "wait"
                 /\ UNCHANGED store
    /\ UNCHANGED <<clockVars, recVars, timerVars, stop_pc, btn_ready, rtVars,
                   transferVars>>

(* ------------------------------------------------------------------ *)
(* The transfer service over a store of finished files (omi build)      *)
(* ------------------------------------------------------------------ *)
\* The body of the file with timestamp ts: one frame or two, so that chunks
\* of one and of several data packets are in the store.
InitBody(ts) == IF ts % 2 = 1 THEN <<227>> ELSE <<227, 100>>

\* The files a timestamp can have in a store the recorder and the
\* retimestamper left behind: none, a published .bin, an unsynced .upt next to
\* it or alone, an orphaned .tmp.
Slots(ts) == IF ts % 3 = 1 THEN {{}, {"bin"}}
             ELSE IF ts % 3 = 2 THEN {{"bin"}, {"bin", "upt"}}
             ELSE {{}, {"bin"}, {"tmp"}, {"upt"}}

InitStores ==
    {{n \in [ts : 1..MaxFiles, ext : Exts] : n.ext \in slot[n.ts]} :
        slot \in {f \in [1..MaxFiles -> SUBSET Exts] : \A ts \in 1..MaxFiles : f[ts] \in Slots(ts)}}

FinishedFile(n) ==
    ChunkFile(n.ts, IF n.ext = "tmp" THEN 0 ELSE BodyBytes(InitBody(n.ts)), InitBody(n.ts))

LinkInit ==
    /\ conn = FALSE
    /\ notify_enabled = FALSE
    /\ upload_active = FALSE
    /\ upload_sem = 0
    /\ ctrl_err = FALSE
    /\ dup_req = FALSE

WorkerInit ==
    /\ up_pc = "wait"
    /\ paths = <<>>
    /\ up_i = 0
    /\ cur = NoChunk
    /\ sent = <<>>
    /\ uploaded = {}
    /\ reoffered = FALSE
    /\ abort_at = <<>>
    /\ hard_err = FALSE
    /\ link_lost = FALSE

\* The recorder after reclo_recorder_init, at boot number b.
RecorderInit(b) ==
    /\ uptime = 0 /\ synced = FALSE /\ boots = b
    /\ recording = FALSE /\ file_open = FALSE /\ write_buf = <<>>
    /\ total_bytes = 0 /\ active_path = NoPath
    /\ chunk_start_ts = 0 /\ chunk_unsynced = FALSE
    /\ timer_on = FALSE /\ timer_next = 0 /\ timer_due = FALSE
    /\ flush_pc = "wait" /\ stop_pc = "idle" /\ btn_ready = TRUE
    /\ rt_pending = FALSE /\ rt_pc = "idle" /\ rt_now = NoNow
    /\ rt_list = <<>> /\ rt_count = 0
    /\ sc = NoStoreChunk

InitUp ==
    /\ \E names \in InitStores : store = [n \in names |-> FinishedFile(n)]
    /\ LinkInit
    /\ WorkerInit
    /\ RecorderInit(0)

LinkNext ==
    \/ on_connected
    \/ on_disconnected
    \/ \E on \in BOOLEAN : data_ccc_changed(on)

\* A phone that connects, subscribes and stays.
LinkUpNext ==
    \/ on_connected
    \/ data_ccc_changed(TRUE)

\* The commands of the phone: ACK_CHUNK for the timestamps ackTs, and the
\* one-byte commands cmds.
AckNext(ackTs) == \E ts \in ackTs : ctrl_write(5, RECLO_CMD_ACK_CHUNK, ts)

CtrlNext(cmds, ackTs) ==
    \/ \E cmd \in cmds : ctrl_write(1, cmd, 0)
    \/ AckNext(ackTs)

Commands == {RECLO_CMD_REQUEST_UPLOAD, RECLO_CMD_ABORT}

\* Writes the protocol does not define: an empty write, an ACK_CHUNK cut
\* short, an unknown command byte.
CtrlOddNext ==
    \/ ctrl_write(0, 0, 0)
    \/ \E ts \in 0..MaxFiles : ctrl_write(1, RECLO_CMD_ACK_CHUNK, ts)
    \/ ctrl_write(1, UnknownCmd, 0)

\* Power is lost and the device boots again: memory starts over, the files
\* stay as they were on the card.
Reboot ==
    /\ boots < MaxBoots
    /\ UNCHANGED store
    /\ conn' = FALSE /\ notify_enabled' = FALSE /\ upload_active' = FALSE
    /\ upload_sem' = 0 /\ ctrl_err' = FALSE /\ dup_req' = FALSE
    /\ up_pc' = "wait" /\ paths' = <<>> /\ up_i' = 0 /\ cur' = NoChunk
    /\ sent' = <<>> /\ uploaded' = {} /\ reoffered' = FALSE /\ abort_at' = <<>>
    /\ hard_err' = FALSE /\ link_lost' = FALSE
    /\ uptime' = 0 /\ synced' = FALSE /\ boots' = boots + 1
    /\ recording' = FALSE /\ file_open' = FALSE /\ write_buf' = <<>>
    /\ total_bytes' = 0 /\ active_path' = NoPath
    /\ chunk_start_ts' = 0 /\ chunk_unsynced' = FALSE
    /\ timer_on' = FALSE /\ timer_next' = 0 /\ timer_due' = FALSE
    /\ flush_pc' = "wait" /\ stop_pc' = "idle" /\ btn_ready' = TRUE
    /\ rt_pending' = FALSE /\ rt_pc' = "idle" /\ rt_now' = NoNow
    /\ rt_list' = <<>> /\ rt_count' = 0
    /\ sc' = NoStoreChunk

\* The upload thread of build v, bt_gatt_notify returning one of results.
WorkerNext(v, results) ==
    \/ UpWake
    \/ \E nr \in results : UpEnumerate(v, nr)
    \/ UpLoopHead
    \/ UpChunkOpen(v)
    \/ \E nr \in results : UpSendHeader(nr)
    \/ UpDataOpen
    \/ \E nr \in results : UpDataStep(nr)
    \/ \E nr \in results : UpFinish(nr)
    \/ UpClear

NextUp ==
    \/ LinkNext
    \/ CtrlNext(Commands, 1..AckFiles)
    \/ WorkerNext("omi", NotifyResults)

SpecUp == InitUp /\ [][NextUp]_vars

\* The control handler alone, with every write it can receive.
NextCtl ==
    \/ LinkNext
    \/ CtrlNext(Commands, 0..MaxFiles)
    \/ CtrlOddNext

SpecCtl == InitUp /\ [][NextCtl]_vars

(* ------------------------------------------------------------------ *)
(* Recorder, retimestamper and control handler (omi build)              *)
(* ------------------------------------------------------------------ *)
\* The Opus frames the codec delivers (bytes).
Frames == {227}

\* The button, the codec and the flush thread, with filesystem calls that
\* succeed or not as listed in fs.
RecorderNext(fs) ==
    \/ \E opened \in fs : reclo_recorder_start(opened)
    \/ reclo_recorder_stop
    \/ \E renamed \in fs : StopFinalize(renamed)
    \/ \E len \in Frames : on_codec_output(len)
    \/ Tick(MaxUptime)
    \/ FlushWake
    \/ \E renamed, opened \in fs : rotate_chunk(renamed, opened)

RetimestampNext(fs) ==
    \/ TimeSync
    \/ \E renamed \in fs : RtOpenChunk(renamed)
    \/ RtScan
    \/ RtPatch
    \/ \E renamed \in fs : RtFile(renamed)
    \/ RtEnd

\* The timestamps the phone can acknowledge: those of the .bin files it may
\* have received.
AckNow == {n.ts : n \in BinNames(store)}

Init ==
    /\ store = [n \in {} |-> 0]
    /\ LinkInit
    /\ WorkerInit
    /\ RecorderInit(0)

Next ==
    \/ RecorderNext({TRUE})
    \/ RetimestampNext({TRUE})
    \/ Reboot
    \/ LinkNext
    \/ AckNext(AckNow)

Spec == Init /\ [][Next]_vars

(* ------------------------------------------------------------------ *)
(* Recorder, chunk storage and transfer service (fw build)              *)
(* ------------------------------------------------------------------ *)
FwRecorderNext(fs) ==
    \/ fw_recorder_start
    \/ \E len \in Frames : fw_on_codec_output(len)
    \/ Tick(MaxUptimeFw)
    \/ FlushWake
    \/ flush_chunk
    \/ \E opened \in fs : store_chunk_step(opened)
    \/ reclo_time_set

NextFw ==
    \/ FwRecorderNext({TRUE})
    \/ LinkUpNext
    \/ CtrlNext({RECLO_CMD_REQUEST_UPLOAD}, AckNow)
    \/ WorkerNext("fw", {"OK"})

SpecFw == Init /\ [][NextFw]_vars

(* ------------------------------------------------------------------ *)
(* Recorder and retimestamper with frames of two lengths (omi build)    *)
(* ------------------------------------------------------------------ *)
\* A short and a long Opus frame (two short ones fit the stream buffer
\* together, a long one with any other does not), the longest frame the
\* buffer holds with its prefix, and frames around the limits of the tests.
FramesRec == {0, 100, 227, RECLO_STREAM_BUF_SIZE - 2, RECLO_STREAM_BUF_SIZE - 1,
              RECLO_STREAM_BUF_SIZE, UINT16_MOD - 1, UINT16_MOD}

NextRec ==
    \/ reclo_recorder_start(TRUE)
    \/ reclo_recorder_stop
    \/ StopFinalize(TRUE)
    \/ \E len \in FramesRec : on_codec_output(len)
    \/ Tick(MaxUptime)
    \/ FlushWake
    \/ rotate_chunk(TRUE, TRUE)
    \/ RetimestampNext({TRUE})

SpecRec == Init /\ [][NextRec]_vars

(* ------------------------------------------------------------------ *)
(* A retimestamp run on given files, wall clock and uptime (omi build)  *)
(* ------------------------------------------------------------------ *)
\* reclo_recorder_retimestamp has read now_utc_s = W and now_up_s = U, no chunk
\* is open, and the store holds .upt files with the timestamps in ts.
InitRt ==
    /\ \E ts \in SUBSET (0..MaxUptRt) :
          store = [n \in {FileName(t, "upt") : t \in ts} |-> FinishedFile(n)]
    /\ \E W \in 1..MaxWallRt, U \in 0..MaxUptRt :
          rt_now = [utc |-> W, up |-> U] /\ uptime = U
    /\ LinkInit
    /\ WorkerInit
    /\ synced = TRUE /\ boots = 0
    /\ recording = FALSE /\ file_open = FALSE /\ write_buf = <<>>
    /\ total_bytes = 0 /\ active_path = NoPath
    /\ chunk_start_ts = 0 /\ chunk_unsynced = FALSE
    /\ timer_on = FALSE /\ timer_next = 0 /\ timer_due = FALSE
    /\ flush_pc = "wait" /\ stop_pc = "idle" /\ btn_ready = TRUE
    /\ rt_pending = FALSE /\ rt_pc = "scan"
    /\ rt_list = <<>> /\ rt_count = 0
    /\ sc = NoStoreChunk

\* The run, and the runs it resubmits when its table was full.
NextRt ==
    \/ RtScan
    \/ RtPatch
    \/ RtFile(TRUE)
    \/ RtEnd
    \/ RtOpenChunk(TRUE)

SpecRt == InitRt /\ [][NextRt]_vars

\* The run with renames of .upt files that succeed or fail, and further clock
\* syncs that submit the work again.
NextRtFail ==
    \/ RtScan
    \/ RtPatch
    \/ \E renamed \in BOOLEAN : RtFile(renamed)
    \/ RtEnd
    \/ RtOpenChunk(TRUE)
    \/ TimeSync

SpecRtFail == InitRt /\ [][NextRtFail]_vars

\* The system work queue runs every submitted work item, and the work function
\* has no blocking wait once no chunk is open: each step of a run is taken.
SpecRtLive == InitRt /\ [][NextRt]_vars /\ WF_vars(NextRt)

(* ------------------------------------------------------------------ *)
(* Upload of chunks that power loss left unfinalized (omi build)        *)
(* ------------------------------------------------------------------ *)
\* What a .bin name can hold: nothing, a finalized chunk, a chunk whose
\* data_size was never back-filled, a header with data_size 0 and no body.
BinKinds == {"none", "final", "nosize", "empty"}

BinFile(ts, kind) ==
    CASE kind = "final"  -> ChunkFile(ts, BodyBytes(InitBody(ts)), InitBody(ts))
      [] kind = "nosize" -> ChunkFile(ts, 0, InitBody(ts))
      [] OTHER           -> ChunkFile(ts, 0, <<>>)

InitRecov ==
    /\ \E kind \in [1..MaxFiles -> BinKinds] :
          store = [n \in {FileName(ts, "bin") : ts \in {t \in 1..MaxFiles : kind[t] # "none"}}
                      |-> BinFile(n.ts, kind[n.ts])]
    /\ LinkInit
    /\ WorkerInit
    /\ RecorderInit(0)

\* A phone that connects, subscribes and asks for uploads, on a link that
\* takes every packet.
NextRecov ==
    \/ LinkUpNext
    \/ ctrl_write(1, RECLO_CMD_REQUEST_UPLOAD, 0)
    \/ WorkerNext("omi", {"OK"})

SpecRecov == InitRecov /\ [][NextRecov]_vars

(* ------------------------------------------------------------------ *)
(* Batches under every event of the link, with a scheduled worker       *)
(* ------------------------------------------------------------------ *)
\* Two published chunks, of one and of two data packets. The phone connects,
\* disconnects, subscribes and unsubscribes, requests, aborts and
\* acknowledges in any order; a packet is lost when the link is down.
InitBatch ==
    /\ store = [n \in {FileName(1, "bin"), FileName(2, "bin")} |-> FinishedFile(n)]
    /\ LinkInit
    /\ WorkerInit
    /\ RecorderInit(0)

NextBatch ==
    \/ LinkNext
    \/ CtrlNext(Commands, 1..AckFiles)
    \/ WorkerNext("omi", {"OK"})

\* The upload thread has no wait but k_sem_take and its k_msleep calls, which
\* end: whenever it can take a step it takes one.
SpecBatch == InitBatch /\ [][NextBatch]_vars /\ WF_vars(WorkerNext("omi", {"OK"}))

(* ------------------------------------------------------------------ *)
(* Requests on a link that stays connected and subscribed (omi build)   *)
(* ------------------------------------------------------------------ *)
\* Two finalized chunks, the phone connected and subscribed, no batch yet.
InitServe ==
    /\ store = [n \in {FileName(1, "bin"), FileName(2, "bin")} |-> FinishedFile(n)]
    /\ conn = TRUE
    /\ notify_enabled = TRUE
    /\ upload_active = FALSE
    /\ upload_sem = 0
    /\ ctrl_err = FALSE
    /\ dup_req = FALSE
    /\ WorkerInit
    /\ RecorderInit(0)

\* The phone writes REQUEST_UPLOAD at any time, and ABORT only while no
\* accepted request waits on the semaphore: no ABORT follows a request the
\* worker has not yet taken.
NextServe ==
    \/ ctrl_write(1, RECLO_CMD_REQUEST_UPLOAD, 0)
    \/ upload_sem = 0 /\ ctrl_write(1, RECLO_CMD_ABORT, 0)
    \/ WorkerNext("omi", {"OK"})

SpecServe == InitServe /\ [][NextServe]_vars /\ WF_vars(WorkerNext("omi", {"OK"}))

(* ------------------------------------------------------------------ *)
(* Upload of a store with files the worker cannot use (omi build)       *)
(* ------------------------------------------------------------------ *)
\* What a .bin name can hold: nothing, a finalized chunk, a header with
\* data_size 0 and no body, fewer than 17 bytes, 17 bytes and a body under a
\* magic other than RCLO.
SkipKinds == {"none", "final", "empty", "short", "badmagic"}

SkipFile(ts, kind) ==
    CASE kind = "final"    -> ChunkFile(ts, BodyBytes(InitBody(ts)), InitBody(ts))
      [] kind = "empty"    -> ChunkFile(ts, 0, <<>>)
      [] kind = "short"    -> [ChunkFile(ts, 0, <<>>) EXCEPT !.hdr = FALSE, !.magic = FALSE]
      [] OTHER             -> [ChunkFile(ts, BodyBytes(InitBody(ts)), InitBody(ts))
                                  EXCEPT !.magic = FALSE]

InitSkip ==
    /\ \E kind \in [1..MaxFiles -> SkipKinds] :
          store = [n \in {FileName(ts, "bin") : ts \in {t \in 1..MaxFiles : kind[t] # "none"}}
                      |-> SkipFile(n.ts, kind[n.ts])]
    /\ LinkInit
    /\ WorkerInit
    /\ RecorderInit(0)

\* A phone that connects, subscribes, asks for uploads and acknowledges
\* chunks, on a link that takes every packet.
NextSkip ==
    \/ LinkUpNext
    \/ ctrl_write(1, RECLO_CMD_REQUEST_UPLOAD, 0)
    \/ AckNext(1..AckFiles)
    \/ WorkerNext("omi", {"OK"})

SpecSkip == InitSkip /\ [][NextSkip]_vars

(* ------------------------------------------------------------------ *)
(* Button, codec and flush thread over several seconds (omi build)      *)
(* ------------------------------------------------------------------ *)
NextBtn ==
    \/ reclo_recorder_start(TRUE)
    \/ reclo_recorder_stop
    \/ StopFinalize(TRUE)
    \/ \E len \in Frames : on_codec_output(len)
    \/ Tick(MaxUptimeBtn)
    \/ FlushWake
    \/ rotate_chunk(TRUE, TRUE)

SpecBtn == Init /\ [][NextBtn]_vars

(* ------------------------------------------------------------------ *)
(* Rotations whose fs_open may fail (omi build)                         *)
(* ------------------------------------------------------------------ *)
\* As above, with renames that succeed and an fs_open in rotate_chunk that
\* succeeds or fails.
NextRot ==
    \/ reclo_recorder_start(TRUE)
    \/ reclo_recorder_stop
    \/ StopFinalize(TRUE)
    \/ \E len \in Frames : on_codec_output(len)
    \/ Tick(MaxUptimeBtn)
    \/ FlushWake
    \/ \E opened \in BOOLEAN : rotate_chunk(TRUE, opened)

SpecRot == Init /\ [][NextRot]_vars

(* ------------------------------------------------------------------ *)
(* Claims                                                               *)
(* ------------------------------------------------------------------ *)
IsHeader(p) == p.type = RECLO_PKT_CHUNK_HEADER
IsData(p) == p.type = RECLO_PKT_CHUNK_DATA
IsDone(p) == p.type = RECLO_PKT_UPLOAD_DONE

\* The step in which the worker fills its table from a store with .bin files.
EnumStep == up_pc = "enum" /\ up_pc' = "loop"

\* The published chunks: finalized files, waiting for upload or for the clock.
Published(st) == {n \in DOMAIN st : n.ext \in {"bin", "upt"}}

\* Two files hold the same chunk: the same data_size and the same frames.
SameChunk(f, g) == f.hdr = g.hdr /\ f.magic = g.magic /\ f.dsz = g.dsz /\ f.body = g.body

\* C1: in every step, every published chunk (.bin or .upt) either stays under
\* its name with its data_size and body unchanged, or is a .upt renamed by the
\* retimestamper to a new .bin name with the same data_size and body, or is a
\* .bin removed by an ACK_CHUNK command carrying its timestamp.
C1_PublishedChunksSurvive ==
    [][\A n \in Published(store) :
          \/ n \in DOMAIN store' /\ SameChunk(store'[n], store[n])
          \/ /\ n.ext = "upt" /\ n \notin DOMAIN store'
             /\ \E m \in (DOMAIN store') \ (DOMAIN store) :
                    m.ext = "bin" /\ SameChunk(store'[m], store[n])
          \/ n.ext = "bin" /\ ctrl_write(5, RECLO_CMD_ACK_CHUNK, n.ts)]_vars

\* C2: a batch sends CHUNK_HEADER and CHUNK_DATA packets only for table entries
\* whose name ends in .bin, so no .tmp and no .upt file is ever transmitted;
\* and the enumeration takes min(number of .bin files, table size) different
\* .bin files, which is all of them when the table is large enough.
C2_OnlyBinUploaded ==
    /\ [](\A k \in DOMAIN sent :
            (IsHeader(sent[k]) \/ IsData(sent[k])) =>
                /\ sent[k].idx < Len(paths)
                /\ paths[sent[k].idx + 1].ext = "bin"
                /\ paths[sent[k].idx + 1].ts = sent[k].ts)
    /\ [][EnumStep =>
            /\ Range(paths') \subseteq BinNames(store)
            /\ Len(paths') = Smaller(Cardinality(BinNames(store)), RECLO_MAX_CHUNKS)
            /\ Cardinality(Range(paths')) = Len(paths')]_vars

\* A .tmp and a .upt file are in the store while chunk data is being sent.
C2_Witness ==
    /\ \E n, m \in DOMAIN store : n.ext = "tmp" /\ m.ext = "upt"
    /\ \E k \in DOMAIN sent : IsData(sent[k])

\* The recorder holds file n open for writing.
BeingWritten(n) ==
    \/ file_open /\ n = active_path
    \/ sc.pc \in {"hdr", "data", "close"} /\ n = StorePath(sc.ts)

\* C3: in neither build does a file exist that the upload enumerator of that
\* build would take while the recorder is still writing it, and no
\* CHUNK_HEADER is sent whose data_size differs from the bytes of the body
\* read for it.
C3_PublicationAtomic ==
    /\ \A n \in DOMAIN store :
          /\ (file_open /\ n = active_path) => ~Enumerated("omi", n)
          /\ (sc.pc # "idle" /\ BeingWritten(n)) => ~Enumerated("fw", n)
    /\ \A k \in DOMAIN sent :
          IsHeader(sent[k]) => sent[k].dsz = BodyBytes(sent[k].crc)

\* C4: no step other than an ACK_CHUNK for its timestamp removes or changes a
\* .bin file (not the worker finishing or abandoning a batch, not ABORT, not a
\* disconnect), and when the table can hold every .bin file a new enumeration
\* takes again every path of the previous batch that is still in the store.
C4_Resumption ==
    [][/\ \A n \in BinNames(store) :
            \/ n \in DOMAIN store' /\ store'[n] = store[n]
            \/ ctrl_write(5, RECLO_CMD_ACK_CHUNK, n.ts)
       /\ (EnumStep /\ Cardinality(BinNames(store)) <= RECLO_MAX_CHUNKS) =>
            \A i \in DOMAIN paths :
                paths[i] \in DOMAIN store => paths[i] \in Range(paths')]_vars

\* A second batch has just enumerated a chunk that an earlier batch offered.
C4_Witness == reoffered /\ up_pc = "loop" /\ up_i = 0

\* The CHUNK_DATA packets notified for chunk k of the batch, in order.
ChunkData(k) == SelectSeq(sent, LAMBDA p : IsData(p) /\ p.idx = k)

\* C5: every CHUNK_DATA packet follows a CHUNK_HEADER with the same chunk_ts,
\* and for every chunk whose upload_one_chunk ran to its end the data packets
\* sent carry seq 1, 2, ..., total_seqs - 1 of its header, in order, without a
\* gap or a repeat.
C5_HeaderThenAllSeqs ==
    /\ \A i \in DOMAIN sent :
          IsData(sent[i]) =>
              \E j \in 1..(i - 1) : IsHeader(sent[j]) /\ sent[j].ts = sent[i].ts
    /\ \A k \in uploaded :
          \E j \in DOMAIN sent :
              /\ IsHeader(sent[j]) /\ sent[j].idx = k
              /\ [i \in DOMAIN ChunkData(k) |-> ChunkData(k)[i].seq]
                    = [i \in 1..(sent[j].total_seqs - 1) |-> i]

\* C6: UPLOAD_DONE is sent at most once per batch and nothing follows it.
C6_DoneOnceAndLast ==
    \A i \in DOMAIN sent : IsDone(sent[i]) => i = Len(sent)

\* UPLOAD_DONE was sent after the packets of a chunk.
C6_Witness == Len(sent) > 1 /\ IsDone(sent[Len(sent)])

\* C7: the CHUNK_HEADER packets of a batch carry strictly ascending chunk_ts,
\* whatever order the directory was read in.
C7_HeadersAscending ==
    \A i, j \in DOMAIN sent :
        (i < j /\ IsHeader(sent[i]) /\ IsHeader(sent[j])) => sent[i].ts < sent[j].ts

\* Two chunks of one batch have had their headers sent.
C7_Witness ==
    \E i, j \in DOMAIN sent : i < j /\ IsHeader(sent[i]) /\ IsHeader(sent[j])

\* C8: once ABORT has arrived in a batch that had sent a CHUNK_HEADER, at most
\* one more packet is sent, and it is a CHUNK_DATA packet of the chunk in
\* flight: no later chunk is started and no UPLOAD_DONE is sent. (That the
\* files stay on disk is the first part of C4.)
C8_AbortStopsBatch ==
    abort_at # <<>> =>
        /\ Len(sent) <= abort_at[1] + 1
        /\ \A i \in DOMAIN sent :
              i > abort_at[1] =>
                  IsData(sent[i]) /\ sent[i].idx = sent[abort_at[1]].idx

\* C9: ACK_CHUNK(ts) removes the file named "<ts as ten digits>.bin" and no
\* other file (no .upt or .tmp with the same digits), leaves every other file
\* as it was, leaves the store unchanged when that file is absent (a repeated
\* ACK, an unknown ts), and is answered without an error.
C9_AckRemovesExactlyItsBin ==
    [][\A ts \in 0..MaxFiles :
          ctrl_write(5, RECLO_CMD_ACK_CHUNK, ts) =>
              /\ DOMAIN store' =
                    {n \in DOMAIN store : NameStr(n) # Fmt010(ts) \o ExtChars("bin")}
              /\ \A n \in DOMAIN store' : store'[n] = store[n]
              /\ (FileName(ts, "bin") \notin DOMAIN store => store' = store)
              /\ ~ctrl_err']_vars

\* The .bin of timestamp 2 has been acknowledged away and the .upt with the
\* same digits is still there.
C9_Witness ==
    /\ FileName(2, "upt") \in DOMAIN store
    /\ FileName(2, "bin") \notin DOMAIN store

\* C10: upload_active goes from false to true only while the link is connected
\* and the phone has subscribed to the data channel.
C10_ActiveOnlyWhenSubscribed ==
    [][(~upload_active /\ upload_active') => (conn /\ notify_enabled)]_vars

\* C11: a REQUEST_UPLOAD that finds upload_active set leaves the flag set, does
\* not give the semaphore and does not touch the worker, so no further batch
\* is queued; and the semaphore count is 0 or 1 in every state.
C11_RequestIdempotent ==
    /\ [](upload_sem \in 0..1)
    /\ [][(ctrl_write(1, RECLO_CMD_REQUEST_UPLOAD, 0) /\ upload_active) =>
             /\ upload_active'
             /\ upload_sem' = upload_sem
             /\ UNCHANGED workerVars]_vars

\* A REQUEST_UPLOAD arrived while the worker was sending the data of a chunk
\* and the batch is still running, with no wake-up queued.
C11_Witness == dup_req /\ upload_active /\ up_pc = "data" /\ upload_sem = 0

\* C12: when bt_gatt_notify returns -EAGAIN on a live, subscribed link, the
\* worker stays at the same packet: a CHUNK_HEADER is tried again for the same
\* chunk, and a CHUNK_DATA is tried again with the same seq and file offset.
C12_TryAgainRetried ==
    [][/\ (UpSendHeader("EAGAIN") /\ conn /\ notify_enabled) =>
             (up_pc' = "hdr" /\ up_i' = up_i)
       /\ (UpDataStep("EAGAIN") /\ conn /\ notify_enabled /\ upload_active
              /\ cur.off < cur.size) =>
             (up_pc' = "data" /\ cur'.seq = cur.seq /\ cur'.off = cur.off)]_vars

\* C13: once a CHUNK_HEADER or CHUNK_DATA send of a batch has failed with a
\* hard error (anything but try-again; -ENOTCONN for a link that is down or
\* not subscribed included), the worker works on no further chunk of that
\* batch and no UPLOAD_DONE is notified in it; the step in which the send
\* fails leaves every file as it was.
C13_HardErrorEndsBatch ==
    /\ [](hard_err =>
            /\ up_pc \notin {"open", "hdr", "dopen", "data"}
            /\ \A i \in DOMAIN sent : ~IsDone(sent[i]))
    /\ [][(~hard_err /\ hard_err') => store' = store]_vars

\* A step in which open_chunk_file opened a new chunk file: the recorder
\* starts, or the flush thread rotates.
OpenStep ==
    /\ (~recording /\ recording') \/ (flush_pc = "rotate" /\ flush_pc' = "wait")
    /\ file_open' /\ active_path' \in DOMAIN store'

\* C14: the kind of a chunk's timestamp is decided when its file is opened:
\* with the clock synced the chunk is tagged with the wall clock and marked for
\* publication as .bin, with the clock unsynced it is tagged with the uptime
\* and marked for publication as .upt.
C14_TsKindDecidedAtOpen ==
    [][OpenStep =>
          IF synced
          THEN chunk_start_ts' = get_utc_time /\ ~chunk_unsynced'
          ELSE chunk_start_ts' = uptime /\ chunk_unsynced']_vars

\* The number a name starts with: strtoul of its ten digits.
NamePrefix(n) == strtoul(SubSeq(NameStr(n), 1, NAME_DIGITS))

\* C15: in every state, every .bin and every .upt file has a name whose ten
\* digits are the timestamp in its header, between the header patch and the
\* rename of a retimestamp pass included.
C15_NameMatchesHeaderTs ==
    \A n \in Published(store) : NamePrefix(n) = store[n].hts

\* C16: every file published by finalization (.upt or .bin, retimestamped
\* while open or not) has the 17 header bytes with magic RCLO and sample rate
\* 16000, and a data_size that is the number of body bytes, so that the file
\* size is 17 + data_size; and while a chunk is open, the counter that
\* becomes data_size is the sum of 2 + len over the frames accepted into it.
C16_FinalizedSizeAndHeader ==
    /\ \A n \in Published(store) :
          /\ store[n].hdr /\ store[n].magic /\ store[n].rate = SAMPLE_RATE
          /\ store[n].dsz = BodyBytes(store[n].body)
          /\ FileSize(store[n]) = FILE_HDR_SIZE + store[n].dsz
    /\ (file_open /\ active_path \in DOMAIN store) =>
          total_bytes = BodyBytes(store[active_path].body) + BodyBytes(write_buf)

\* A chunk of two frames, retimestamped while it was open, has been published
\* as .bin by reclo_recorder_stop.
C16_Witness ==
    /\ ~file_open /\ stop_pc = "idle" /\ ~chunk_unsynced
    /\ FileName(chunk_start_ts, "bin") \in DOMAIN store
    /\ Len(store[FileName(chunk_start_ts, "bin")].body) = 2
    /\ chunk_start_ts >= Wall0

\* The frames of the open chunk: those on disk, then those in the RAM buffer.
Content == IF file_open /\ active_path \in DOMAIN store
           THEN store[active_path].body \o write_buf
           ELSE <<>>

\* A step in which finalize_chunk ran: reclo_recorder_stop or rotate_chunk
\* found a file open.
FinalizeStep ==
    /\ file_open
    /\ \/ stop_pc = "fin" /\ stop_pc' = "idle"
       \/ flush_pc = "rotate" /\ flush_pc' = "wait"

\* C17: the frames of the open chunk grow by exactly the accepted frame, at
\* the end, in every step of the codec callback (whether it flushed the
\* stream buffer or not); finalization publishes a file whose body is those
\* frames in that order; and no other step (a retimestamp of the open file
\* included) changes them.
C17_FramesRoundTrip ==
    [][\/ \E len \in FramesRec :
             on_codec_output(len) /\ Content' = Append(Content, len)
       \/ /\ FinalizeStep
          /\ FinalPath \in DOMAIN store'
          /\ store'[FinalPath].body = Content
       \/ /\ ~FinalizeStep
          /\ \A len \in FramesRec : ~on_codec_output(len)
          /\ file_open => (file_open' /\ Content' = Content)]_vars

\* A long frame and then a short one, with a flush of the stream buffer in
\* between, are in a published chunk in that order.
C17_Witness ==
    \E n \in Published(store) : store[n].body = <<227, 100>>

UptNames(st) == {n \in DOMAIN st : n.ext = "upt"}

\* C18: a retimestamp run with wall clock W and uptime U renames every .upt
\* file with timestamp t <= U (and W - (U - t) not negative) to the name
\* W - (U - t) as ten digits, .bin, with that value as header ts and with
\* data_size and body as they were; and a run that started with no more .upt
\* files than its table holds ends with no .upt file in the store.
C18_RetimestampResult ==
    [][/\ (rt_pc = "rename" /\ rt_pc' = "files" /\ RtPass.old_path \in DOMAIN store
            /\ Head(rt_list) <= rt_now.up
            /\ rt_now.utc >= rt_now.up - Head(rt_list)) =>
             LET v == rt_now.utc - (rt_now.up - Head(rt_list))
                 m == FileName(v, "bin")
             IN /\ RtPass.old_path \notin DOMAIN store'
                /\ m \in DOMAIN store'
                /\ NamePrefix(m) = v
                /\ store'[m].hts = v
                /\ SameChunk(store'[m], store[RtPass.old_path])
       /\ (rt_pc = "files" /\ rt_pc' = "idle"
            /\ rt_count + Cardinality(UptNames(store)) <= RECLO_MAX_CHUNKS) =>
             UptNames(store') = {}]_vars

\* A run with W = 3 and U = 2 has renamed the .upt files of timestamps 0 and
\* 2 to 0000000001.bin and 0000000003.bin and is over.
C18_Witness ==
    /\ rt_pc = "idle" /\ ~rt_pending /\ uptime = 2
    /\ DOMAIN store = {FileName(1, "bin"), FileName(3, "bin")}
    /\ store[FileName(1, "bin")].body = InitBody(0)
    /\ store[FileName(3, "bin")].body = InitBody(2)

\* W - (U - file_ts) with the elapsed time clamped at 0 and the difference
\* saturating at 0.
SaturatingTs(W, U, file_ts) ==
    LET elapsed == IF U >= file_ts THEN U - file_ts ELSE 0
    IN IF W >= elapsed THEN W - elapsed ELSE 0

\* C19: the timestamp a retimestamp pass writes into the header of a .upt
\* file is W - (U - file_ts) saturating at 0, and so is never above W,
\* whether the elapsed time exceeds W or file_ts exceeds U.
C19_NewTsSaturates ==
    [][(rt_pc = "files" /\ rt_pc' = "rename" /\ RtPass.old_path \in DOMAIN store) =>
          /\ store'[RtPass.old_path].hts =
                SaturatingTs(rt_now.utc, rt_now.up, Head(rt_list))
          /\ store'[RtPass.old_path].hts <= rt_now.utc]_vars

\* The least number of packets of b bytes that hold a bytes.
CeilDiv(a, b) == CHOOSE q \in 0..a : q * b >= a /\ (q = 0 \/ (q - 1) * b < a)

RECURSIVE SumLen(_)
SumLen(q) == IF q = <<>> THEN 0 ELSE Head(q).len + SumLen(Tail(q))

\* The file behind entry k (0-based) of the worker's table.
TableFile(k) == store[paths[k + 1]]

\* The worker is in a batch and is past entry k of its table.
Passed(k) == up_pc \in {"loop", "open", "hdr", "dopen", "data", "fin", "clear"}
             /\ k < up_i /\ k < Len(paths)

\* C20: for a .bin file with valid magic and data_size 0 in its header, the
\* worker takes file size - 17 as data_size: with a body, the CHUNK_HEADER
\* carries that data_size and total_seqs = 1 + ceil((file size - 17) / 229)
\* and the CHUNK_DATA packets carry the whole body; with no body, no packet
\* is sent for the chunk.
C20_UnfinalizedRecovered ==
    /\ \A i \in DOMAIN sent :
          (IsHeader(sent[i]) /\ TableFile(sent[i].idx).dsz = 0) =>
              LET size == FileSize(TableFile(sent[i].idx))
              IN /\ size > FILE_HDR_SIZE
                 /\ sent[i].dsz = size - FILE_HDR_SIZE
                 /\ sent[i].total_seqs = 1 + CeilDiv(size - FILE_HDR_SIZE, RECLO_PAYLOAD_SIZE)
    /\ \A k \in 0..(Len(paths) - 1) :
          (Passed(k) /\ TableFile(k).dsz = 0) =>
              IF FileSize(TableFile(k)) > FILE_HDR_SIZE
              THEN /\ \E i \in DOMAIN sent : IsHeader(sent[i]) /\ sent[i].idx = k
                   /\ SumLen(ChunkData(k)) = FileSize(TableFile(k)) - FILE_HDR_SIZE
                   /\ Len(ChunkData(k)) = CeilDiv(FileSize(TableFile(k)) - FILE_HDR_SIZE,
                                                  RECLO_PAYLOAD_SIZE)
              ELSE \A i \in DOMAIN sent : IsDone(sent[i]) \/ sent[i].idx # k

\* In one batch the worker has skipped a chunk that is only a header and has
\* sent the two frames of a chunk whose data_size was never back-filled.
C20_Witness ==
    /\ up_pc = "fin"
    /\ \E j, k \in 0..(Len(paths) - 1) :
          /\ Passed(j) /\ TableFile(j).dsz = 0 /\ FileSize(TableFile(j)) = FILE_HDR_SIZE
          /\ Passed(k) /\ TableFile(k).dsz = 0 /\ Len(TableFile(k).body) = 2
          /\ Len(ChunkData(k)) = 2

\* The CHUNK_HEADER packets notified for chunk k of the batch.
ChunkHeaders(k) == SelectSeq(sent, LAMBDA p : IsHeader(p) /\ p.idx = k)

\* C21: on a link that takes every packet, a chunk whose upload ran to its
\* end with a body of n = data_size bytes was sent as exactly one CHUNK_HEADER
\* with total_seqs = 1 + ceil(n / 229), followed by ceil(n / 229) CHUNK_DATA
\* packets of payload_len 229, the last one possibly shorter, whose
\* payload_len values add up to the data_size of the header.
C21_PacketsPerChunk ==
    \A k \in uploaded :
        LET n == BodyBytes(TableFile(k).body)
            h == ChunkHeaders(k)
            d == ChunkData(k)
        IN /\ Len(h) = 1
           /\ h[1].dsz = n
           /\ h[1].total_seqs = 1 + CeilDiv(n, RECLO_PAYLOAD_SIZE)
           /\ Len(d) = CeilDiv(n, RECLO_PAYLOAD_SIZE)
           /\ \A i \in DOMAIN d :
                 /\ d[i].len <= RECLO_PAYLOAD_SIZE /\ d[i].len > 0
                 /\ i < Len(d) => d[i].len = RECLO_PAYLOAD_SIZE
                 /\ d[i].total_seqs = h[1].total_seqs
           /\ SumLen(d) = h[1].dsz
           /\ \A i, j \in DOMAIN sent :
                 (IsHeader(sent[i]) /\ sent[i].idx = k /\ IsData(sent[j]) /\ sent[j].idx = k)
                     => i < j

\* A batch of two chunks is complete: a header and one full data packet, a
\* header and a full and a short data packet, and UPLOAD_DONE.
C21_Witness ==
    /\ uploaded = {0, 1} /\ Len(sent) = 6 /\ IsDone(sent[6])
    /\ Len(ChunkData(0)) = 1 /\ ChunkData(0)[1].len = RECLO_PAYLOAD_SIZE
    /\ Len(ChunkData(1)) = 2 /\ ChunkData(1)[2].len < RECLO_PAYLOAD_SIZE

RecorderState == <<store, recVars, timerVars, flush_pc, stop_pc, rtVars, clockVars>>

\* C23: reclo_recorder_start called while recording opens no file, does not
\* re-arm the timer and changes nothing of the recorder or the store, and
\* reclo_recorder_stop called while not recording changes nothing either; so
\* a second start after a start, and a second stop after a stop, have no
\* effect.
C23_StartStopIdempotent ==
    [][/\ (reclo_recorder_start(TRUE) /\ recording) => UNCHANGED RecorderState
       /\ (reclo_recorder_stop /\ ~recording) => UNCHANGED RecorderState]_vars

\* The button called reclo_recorder_start in a second after the one in which
\* the open chunk was started, and the recorder goes on with that chunk.
C23_Witness ==
    /\ recording /\ ~btn_ready /\ file_open /\ chunk_unsynced
    /\ chunk_start_ts < uptime
    /\ active_path = FileName(chunk_start_ts, "tmp")
    /\ timer_on

\* C24: whenever the recorder is stopped and reclo_recorder_stop has returned,
\* the recorder has no open file and no chunk file waits under a .tmp name
\* that the recorder holds as its active path; and no step taken while the
\* recorder is stopped creates a .tmp file or writes a frame.
C24_StoppedMeansClosed ==
    /\ []((~recording /\ stop_pc = "idle") => ~file_open)
    /\ [][(~recording /\ ~recording' /\ stop_pc = "idle") =>
             /\ \A n \in DOMAIN store' : (n.ext = "tmp") => (n \in DOMAIN store)
             /\ \A n \in DOMAIN store :
                   (n \in DOMAIN store') => store'[n].body = store[n].body]_vars

\* C25: no step puts a file under a name that is already in the store: a name
\* disappears from the store without a new one appearing only when an
\* ACK_CHUNK unlinks it (a rename onto an existing name would do the same),
\* and the file open_chunk_file creates has a name the store did not hold.
C25_NamesUnique ==
    [][/\ (DOMAIN store' # DOMAIN store /\ DOMAIN store' \subseteq DOMAIN store) =>
             \E n \in BinNames(store) : ctrl_write(5, RECLO_CMD_ACK_CHUNK, n.ts)
       /\ OpenStep =>
             active_path' \notin DOMAIN (IF file_open /\ flush_pc = "rotate"
                                         THEN finalize_chunk(store, TRUE)
                                         ELSE store)]_vars

\* C26: when the worker enumerates a store without a .bin file, it sends
\* nothing but one UPLOAD_DONE (the only packet of the batch when the link
\* takes it) and goes to the end of the batch, where it clears upload_active
\* and waits for the next request; no CHUNK_HEADER and no CHUNK_DATA is sent.
C26_EmptyBatchSendsDone ==
    [][/\ (up_pc = "enum" /\ up_pc' # "enum" /\ BinNames(store) = {}) =>
             /\ up_pc' = "clear"
             /\ \A i \in DOMAIN sent' : IsDone(sent'[i])
             /\ Len(sent') <= 1
       /\ (UpEnumerate("omi", "OK") /\ BinNames(store) = {} /\ conn /\ notify_enabled) =>
             (Len(sent') = 1 /\ IsDone(sent'[1]))
       /\ (up_pc = "clear" /\ up_pc' # "clear") =>
             (up_pc' = "wait" /\ ~upload_active' /\ sent' = <<>>)]_vars

\* The worker found a .upt file but no .bin file, has sent UPLOAD_DONE alone
\* and is about to clear upload_active.
C26_Witness ==
    /\ up_pc = "clear" /\ Len(sent) = 1 /\ IsDone(sent[1])
    /\ BinNames(store) = {} /\ UptNames(store) # {}
    /\ upload_active

\* C27: the recorder never opens a chunk file while the handle of an earlier
\* one is still open: reclo_recorder_start opens its file only when no file
\* is open (rotate_chunk and the retimestamper close the open file before they
\* open one).
C27_OneOpenHandle ==
    [][(~recording /\ recording') => ~file_open]_vars


\* C28: a retimestamp run collects at most RECLO_MAX_CHUNKS .upt files and
\* resubmits itself only when its table was full; every pass whose rename
\* succeeds replaces the .upt name by a .bin name; and however many .upt files
\* the sync found, the store eventually holds no .upt file and the work item
\* is idle and not submitted, for good.
C28_RetimestampTerminates ==
    /\ [](rt_count <= RECLO_MAX_CHUNKS /\ Len(rt_list) <= rt_count)
    /\ [][(~rt_pending /\ rt_pending') => rt_count = RECLO_MAX_CHUNKS]_vars
    /\ [][(rt_pc = "rename" /\ rt_pc' = "files" /\ RtPass.old_path \in DOMAIN store) =>
             /\ RtPass.old_path \notin DOMAIN store'
             /\ RtPass.new_path \in DOMAIN store']_vars
    /\ <>[](UptNames(store) = {} /\ rt_pc = "idle" /\ ~rt_pending)

\* More .upt files than the table holds, on distinct seconds, have all become
\* .bin files and the work item has come to rest.
C28_Witness ==
    /\ rt_pc = "idle" /\ ~rt_pending
    /\ UptNames(store) = {}
    /\ Cardinality(BinNames(store)) > RECLO_MAX_CHUNKS


\* The frame of len bytes is appended: on_codec_output can take a step that
\* puts it last in the buffer and adds 2 + len to total_bytes.
FrameAppended(len) ==
    ENABLED (/\ on_codec_output(len)
             /\ total_bytes' = total_bytes + 2 + len
             /\ write_buf' # <<>> /\ write_buf'[Len(write_buf')] = len)

\* The frame of len bytes is dropped: on_codec_output changes nothing.
FrameDropped(len) == ~ENABLED <<on_codec_output(len)>>_vars

\* C29 as stated: frames of length 0 or above 65,535, frames that arrive while
\* not recording or with no file open, and frames longer than the staging
\* buffer are dropped and change nothing; every frame of 1 to
\* RECLO_STREAM_BUF_SIZE bytes that arrives while recording with a file open
\* is appended.
C29_DropsExactlyAsStated ==
    \A len \in FramesRec :
        /\ (len = 0 \/ len > UINT16_MOD - 1 \/ ~recording \/ ~file_open
               \/ len > RECLO_STREAM_BUF_SIZE) => FrameDropped(len)
        /\ (recording /\ file_open /\ 1 <= len /\ len <= RECLO_STREAM_BUF_SIZE
               /\ FramesInChunk < MaxFrames) => FrameAppended(len)

\* C29: frames of length 0 or above 65,535, frames that arrive while not
\* recording or with no file open, and frames that with their two-byte prefix
\* are longer than the staging buffer are dropped and change nothing; every
\* frame of 1 to RECLO_STREAM_BUF_SIZE - 2 bytes that arrives while recording
\* with a file open is appended.
C29_DropsExactly ==
    \A len \in FramesRec :
        /\ (len = 0 \/ len > UINT16_MOD - 1 \/ ~recording \/ ~file_open
               \/ 2 + len > RECLO_STREAM_BUF_SIZE) => FrameDropped(len)
        /\ (recording /\ file_open /\ 1 <= len /\ 2 + len <= RECLO_STREAM_BUF_SIZE
               /\ FramesInChunk < MaxFrames) => FrameAppended(len)

\* The longest frame that is not dropped sits in the buffer of an open chunk,
\* where a frame one byte longer would be dropped.
C29_Witness ==
    /\ recording /\ file_open
    /\ write_buf = <<RECLO_STREAM_BUF_SIZE - 2>>
    /\ total_bytes = RECLO_STREAM_BUF_SIZE
    /\ FrameDropped(RECLO_STREAM_BUF_SIZE - 1)


\* A step of on_codec_output that buffers a frame of the open chunk.
AppendStep ==
    /\ file_open /\ file_open' /\ active_path' = active_path
    /\ total_bytes' > total_bytes

\* C30: the staging buffer never holds more than RECLO_STREAM_BUF_SIZE bytes;
\* a frame that would not fit behind the buffered bytes is appended to an
\* emptied buffer after those bytes were written to the end of the open file;
\* and while a chunk file is open total_bytes_in_chunk is the bytes of the
\* file body plus the bytes in the buffer.
C30_BufferNeverOverflows ==
    /\ [](BodyBytes(write_buf) <= RECLO_STREAM_BUF_SIZE)
    /\ [](file_open /\ active_path \in DOMAIN store =>
             total_bytes = BodyBytes(store[active_path].body) + BodyBytes(write_buf))
    /\ [][AppendStep =>
            LET len == total_bytes' - total_bytes - 2
            IN IF BodyBytes(write_buf) + 2 + len > RECLO_STREAM_BUF_SIZE
               THEN /\ write_buf' = <<len>>
                    /\ store'[active_path].body = store[active_path].body \o write_buf
               ELSE /\ write_buf' = Append(write_buf, len)
                    /\ store' = store]_vars

\* A frame has been buffered after the frames before it were written to the
\* file to make room.
C30_Witness ==
    /\ file_open /\ active_path \in DOMAIN store
    /\ store[active_path].body # <<>>
    /\ write_buf # <<>>
    /\ BodyBytes(store[active_path].body) + BodyBytes(write_buf) > RECLO_STREAM_BUF_SIZE
    /\ total_bytes = BodyBytes(store[active_path].body) + BodyBytes(write_buf)


\* A step of rotate_chunk.
RotateStep == flush_pc = "rotate" /\ flush_pc' = "wait"

\* C31: a rotation whose fs_open fails leaves the recorder recording with no
\* file open and the timer running, the chunk it closed published under its
\* final name with its data_size and all its frames; while no file is open
\* every frame is dropped; and the next rotation calls fs_open again and, if
\* that succeeds, has an empty chunk open under the name of the current
\* uptime.
C31_FailedOpenRetried ==
    /\ [][(RotateStep /\ file_open /\ ~file_open') =>
            /\ recording' = recording
            /\ timer_on' = timer_on
            /\ active_path \notin DOMAIN store'
            /\ FinalPath \in DOMAIN store'
            /\ store'[FinalPath].dsz = total_bytes
            /\ store'[FinalPath].body = store[active_path].body \o write_buf]_vars
    /\ [](recording /\ ~file_open => \A len \in Frames : FrameDropped(len))
    /\ [](recording /\ stop_pc = "idle" => timer_on)
    /\ [](flush_pc = "rotate" /\ ~file_open =>
             ENABLED (/\ rotate_chunk(TRUE, TRUE)
                      /\ file_open' /\ recording' = recording
                      /\ active_path' = FileName(uptime, "tmp")
                      /\ active_path' \in DOMAIN store'
                      /\ write_buf' = <<>> /\ total_bytes' = 0))

\* A rotation closed and published a chunk and could not open the next one:
\* the recorder records with no file open, and the timer has fired again.
C31_Witness ==
    /\ recording /\ ~file_open /\ timer_on
    /\ flush_pc = "rotate"
    /\ active_path.ext = "tmp" /\ active_path \notin DOMAIN store
    /\ UptNames(store) # {}


\* The pass of the rename loop at its fs_rename.
RenameStep == rt_pc = "rename" /\ rt_pc' = "files" /\ RtPass.old_path \in DOMAIN store

\* C32: a pass whose fs_rename fails leaves the file under its .upt name with
\* its data_size and body and changes no other file, and the loop goes on to
\* the files after it; every later run collects the .upt names then in the
\* store, the left one among them, and a pass whose rename succeeds puts the
\* file, body unchanged, under the .bin name computed from the timestamp in
\* its file name, whatever its header holds by then.
C32_FailedRenameRetried ==
    /\ [][(RenameStep /\ RtPass.old_path \in DOMAIN store') =>
            /\ store' = store
            /\ rt_list' = Tail(rt_list)]_vars
    /\ [](rt_pc = "files" /\ rt_list # <<>> => ENABLED RtPatch)
    /\ [][(rt_pc = "scan" /\ rt_pc' = "files") =>
            /\ Range(rt_list') \subseteq {NamePrefix(n) : n \in UptNames(store)}
            /\ Len(rt_list') = Smaller(Cardinality(UptNames(store)), RECLO_MAX_CHUNKS)
            /\ Cardinality(Range(rt_list')) = Len(rt_list')]_vars
    /\ [][(RenameStep /\ RtPass.old_path \notin DOMAIN store') =>
            LET old == RtPass.old_path
                new == FileName(RealTs(rt_now.utc, rt_now.up, NamePrefix(old)), "bin")
            IN /\ new \in DOMAIN store'
               /\ store'[new].body = store[old].body
               /\ store'[new].dsz = store[old].dsz]_vars

\* A later run is at a .upt file that an earlier run patched and could not
\* rename (its header no longer holds the timestamp of its name), while that
\* earlier run renamed another file of its batch.
C32_Witness ==
    /\ rt_pc = "files" /\ rt_list # <<>>
    /\ RtPass.old_path \in DOMAIN store
    /\ store[RtPass.old_path].hts # Head(rt_list)
    /\ BinNames(store) # {}


\* The step of reclo_recorder_retimestamp that finds an unsynced chunk open.
RetimestampOpenStep ==
    /\ rt_pending /\ rt_pc = "idle" /\ rt_pc' = "scan"
    /\ file_open /\ chunk_unsynced /\ active_path \in DOMAIN store

\* C33: the retimestamp of the open unsynced chunk is one step under the
\* lock that writes the buffered frames behind those in the file, leaves the
\* file open under the name real_ts as ten digits, .tmp, with real_ts in its
\* header and as the chunk's ts, the unsynced flag off and total_bytes as it
\* was, and leaves no file under the old name; and a chunk that is no longer
\* unsynced is published under its ts as ten digits, .bin, holding all its
\* frames in order with data_size their total.
C33_OpenChunkRetimestamped ==
    /\ [][RetimestampOpenStep =>
            LET real_ts == RealTs(get_utc_time, uptime, chunk_start_ts)
                new_path == FileName(real_ts, "tmp")
            IN /\ file_open' /\ active_path' = new_path
               /\ new_path \in DOMAIN store'
               /\ (new_path # active_path => active_path \notin DOMAIN store')
               /\ store'[new_path].body = store[active_path].body \o write_buf
               /\ store'[new_path].hts = real_ts
               /\ NamePrefix(new_path) = real_ts
               /\ write_buf' = <<>>
               /\ total_bytes' = total_bytes
               /\ chunk_start_ts' = real_ts
               /\ ~chunk_unsynced'
               /\ recording' = recording]_vars
    /\ [][(FinalizeStep /\ ~chunk_unsynced /\ active_path \in DOMAIN store) =>
            LET bin == FileName(chunk_start_ts, "bin")
            IN /\ bin \in DOMAIN store'
               /\ active_path \notin DOMAIN store'
               /\ store'[bin].body = Content
               /\ store'[bin].dsz = BodyBytes(Content)
               /\ store'[bin].hts = chunk_start_ts]_vars

\* A short frame was buffered when the open chunk was retimestamped and is now
\* in the renamed file; a second short frame, which fits the buffer with the
\* first, has been buffered since.
C33_Witness ==
    /\ recording /\ file_open /\ ~chunk_unsynced
    /\ active_path = FileName(chunk_start_ts, "tmp")
    /\ chunk_start_ts >= Wall0
    /\ active_path \in DOMAIN store
    /\ store[active_path].body = <<100>>
    /\ write_buf = <<100>>


\* The file at path p is none the worker can upload: it is gone, shorter than
\* its header, under another magic, or a header with data_size 0 and no body.
Unusable(p) ==
    \/ p \notin DOMAIN store
    \/ ~store[p].hdr
    \/ ~store[p].magic
    \/ (store[p].dsz = 0 /\ store[p].body = <<>>)

\* C34: when upload_one_chunk finds a file it cannot use, no packet is sent,
\* the store is unchanged and the loop goes to the next entry of the table;
\* the loop takes the next entry whenever one is left and the upload is
\* active; at the end of the loop an active upload on a live link sends
\* UPLOAD_DONE; and the batch log holds no packet of a chunk whose file is on
\* disk and unusable.
C34_ChunkErrorsSkipped ==
    /\ [][(up_pc = "open" /\ up_pc' # "open" /\ Unusable(paths[up_i + 1])) =>
            /\ sent' = sent
            /\ store' = store
            /\ up_i' = up_i + 1
            /\ up_pc' = "loop"
            /\ upload_active' = upload_active]_vars
    /\ [][(up_pc = "loop" /\ up_pc' # "loop") =>
            up_pc' = IF up_i < Len(paths) /\ upload_active THEN "open" ELSE "fin"]_vars
    /\ [][(up_pc = "fin" /\ up_pc' # "fin" /\ upload_active /\ conn /\ notify_enabled) =>
            sent' = Append(sent, DonePacket)]_vars
    /\ [](\A k \in 0..(Len(paths) - 1) :
            (Passed(k) /\ paths[k + 1] \in DOMAIN store /\ Unusable(paths[k + 1])) =>
                \A i \in DOMAIN sent : IsDone(sent[i]) \/ sent[i].idx # k)

\* The first file of the table has a bad magic and is still on disk, the
\* second was uploaded, and UPLOAD_DONE closed the batch: three packets.
C34_Witness ==
    /\ up_pc = "clear" /\ Len(paths) = 2 /\ upload_active
    /\ paths[1] \in DOMAIN store /\ ~store[paths[1]].magic /\ store[paths[1]].hdr
    /\ uploaded = {1}
    /\ Len(sent) = 3 /\ IsHeader(sent[1]) /\ sent[1].idx = 1 /\ IsDone(sent[3])


\* The link is down, the subscription is off or the upload flag is clear.
Disturbed == ~conn \/ ~notify_enabled \/ ~upload_active

\* The batch is at its end with UPLOAD_DONE as its last packet, after the
\* loop went through every entry of the table (or found none).
BatchComplete ==
    /\ up_pc = "clear"
    /\ sent # <<>> /\ IsDone(sent[Len(sent)])
    /\ Len(sent) = 1 \/ up_i = Len(paths)

SendStep == Len(sent') = Len(sent) + 1
LastSent == sent'[Len(sent')]

\* The table of a batch holds min(number of .bin files, RECLO_MAX_CHUNKS) of
\* the .bin names in the store, sorted ascending, and filling it changes no
\* file.
TableCapped ==
    (up_pc = "enum" /\ up_pc' = "loop") =>
        /\ Len(paths') = Smaller(Cardinality(BinNames(store)), RECLO_MAX_CHUNKS)
        /\ Range(paths') \subseteq BinNames(store)
        /\ \A i, j \in DOMAIN paths' : i < j => paths'[i].ts < paths'[j].ts
        /\ store' = store

\* A CHUNK_HEADER carries as chunk_idx the position of its file in the
\* table, below total_chunks and above the chunk_idx of every CHUNK_HEADER
\* before it.
HeaderIdxInTable ==
    (SendStep /\ IsHeader(LastSent)) =>
        /\ LastSent.idx < LastSent.total
        /\ LastSent.ts = store[paths[LastSent.idx + 1]].hts
        /\ \A i \in DOMAIN sent : IsHeader(sent[i]) => sent[i].idx < LastSent.idx

\* C36 as stated: the table is capped, every packet of the batch carries the
\* length of the table as total_chunks, and chunk_idx is the position in the
\* table.
C36_BatchCappedAsStated ==
    /\ [][TableCapped]_vars
    /\ [][SendStep =>
            LastSent.total = IF up_pc = "enum"
                             THEN Smaller(Cardinality(BinNames(store)), RECLO_MAX_CHUNKS)
                             ELSE Len(paths)]_vars
    /\ [][HeaderIdxInTable]_vars

\* C36: the table is capped, every CHUNK_HEADER and CHUNK_DATA packet of the
\* batch carries the length of the table as total_chunks, UPLOAD_DONE carries
\* 0 in total_chunks as in every field but pkt_type, and chunk_idx is the
\* position in the table; no step of the worker changes a file.
C36_BatchCapped ==
    /\ [][TableCapped]_vars
    /\ [][SendStep =>
            IF IsDone(LastSent)
            THEN LastSent = DonePacket /\ LastSent.total = 0
            ELSE LastSent.total = Len(paths)
                 /\ Len(paths) = Smaller(Len(paths), RECLO_MAX_CHUNKS)]_vars
    /\ [][HeaderIdxInTable]_vars
    /\ [][up_pc' # up_pc => store' = store]_vars

\* A batch over a store of three .bin files is complete: two chunks were
\* uploaded with total_chunks 2, UPLOAD_DONE was sent with total_chunks 0, and
\* the three files are on disk.
C36_Witness ==
    /\ up_pc = "clear" /\ uploaded = {0, 1}
    /\ Cardinality(BinNames(store)) = RECLO_MAX_CHUNKS + 1
    /\ Len(paths) = RECLO_MAX_CHUNKS
    /\ IsDone(sent[Len(sent)]) /\ sent[Len(sent)].total = 0
    /\ \A i \in 1..(Len(sent) - 1) : sent[i].total = RECLO_MAX_CHUNKS


\* C37: a worker that took the semaphore of a request and finds upload_active
\* cleared before it has enumerated the store sends no packet when it
\* enumerates, whether the store holds .bin files or not.
C37_AbortBeforeStartSilent ==
    [][(up_pc = "enum" /\ up_pc' # "enum" /\ ~upload_active) => sent' = sent]_vars


\* C38: once the link has disconnected during a batch, no further packet of
\* that batch is sent, whatever the phone does before the worker next reads
\* upload_active (reconnect, resubscribe, REQUEST_UPLOAD); in particular no
\* CHUNK_DATA packet is sent once the link has dropped after the CHUNK_HEADER
\* of its chunk.
C38_BatchEndsWithSession ==
    [][link_lost =>
         \/ Len(sent') <= Len(sent)
         \/ sent'[Len(sent')].type # RECLO_PKT_CHUNK_DATA]_vars

\* C39: on a link that stays connected and subscribed, a request that was
\* accepted and is followed by no ABORT before the worker takes it is served
\* by a batch that starts with upload_active set.
C39_RequestServed ==
    [][(up_pc = "wait" /\ up_pc' = "enum") => upload_active]_vars

\* C40: no step of the recorder publishes a chunk file (.bin or .upt) whose
\* data_size is 0: a rotation or stop closing a window in which no frame was
\* accepted leaves no published file behind.
C40_NoEmptyChunkPublished ==
    [][\A n \in Published(store') :
          (n \notin Published(store) \/ store'[n] # store[n]) => store'[n].dsz # 0]_vars
====
